---- MODULE Spec2Model ----
(***************************************************************************)
(* A model of the MCP client core (packages/mcp-core):                     *)
(*   - OfflineQueue over InMemoryQueueStorage   (queue.ts)                 *)
(*   - McpClient                                 (client.ts)               *)
(*   - HttpTransport                             (transport.ts)            *)
(* Every async function is cut at its await points: one action per         *)
(* synchronous stretch of code between two suspensions, as the             *)
(* single-threaded event loop runs it.                                     *)
(***************************************************************************)
EXTENDS Integers, Sequences, FiniteSets, TLC

\* ------------------------------------------------------------------ bounds
\* Total number of OfflineQueue.enqueue calls in one behaviour.
MaxEnqueues == 3
\* Total number of enqueue calls on a queue whose storage may fail or be
\* emptied and whose flush passes may overlap.
MaxDirectEnqueues == 2
\* Number of OfflineQueue calls (enqueue, flush) in progress at the same time.
MaxOverlappingOps == 2
\* Largest configured maxQueueSize (0 stands for "not configured").
MaxQueueSizeCfg == 2
\* Total number of McpClient.request calls (those of initialize included).
MaxClientRequests == 2
\* Total number of McpClient.initialize calls.
MaxInitCalls == 2
\* Total number of McpClient.close calls.
MaxCloses == 1
\* Total number of HttpTransport.request, stream and upload calls on one
\* transport, and of HttpTransport.close calls.
MaxTransportCalls == 3
MaxTransportCloses == 1
\* Total number of calls on a transport whose calls overlap.
MaxOverlappingCalls == 2
\* Largest retries, baseDelayMs and maxDelayMs of an exercised retry policy.
MaxRetries == 2
MaxBaseDelayMs == 2
MaxMaxDelayMs == 4
\* the segments (a line's content and its terminator) of a stream text
MaxSseSegments == 2
\* the setToken calls on the TokenAuthProvider of one transport
MaxSetTokens == 1

Undefined == "undefined"
\* what a transport request resolves with, and what it rejects with
Results == {"r1", "r2"}
Errors == {"err"}
\* the { queued: true } acknowledgment of McpClient.request
Queued == "queued"
\* the response statuses of the server; 200 stands for every 2xx
Statuses == {200, 304, 400, 499, 500}
\* the mcp-session-id values of the server
SessionIds == {"s1", "s2"}
\* a protocolVersion of an initialize result other than the default
NegotiatedVersion == "2025-03-26"
\* a fetch that rejects (no response, no status), and an error raised while
\* the body of a 2xx response is decoded (a JSON-RPC error, no SSE data)
NetworkFailure == [kind |-> "network", status |-> 0]
BodyError == [kind |-> "body", status |-> 0]
\* the error raised for a response whose status is not ok: it carries the
\* status (transport.ts:269-275)
HttpError(status) == [kind |-> "http", status |-> status]
\* what a finished call gave its caller besides an error
NoOutcome == [kind |-> "none", status |-> 0]
Result == [kind |-> "result", status |-> 200]
Methods == {"tools/list", "tools/call"}
\* the method of an enqueue call made on the queue directly
DirectMethods == {"tools/call"}

VARIABLES
    \* OfflineOptions.maxQueueSize (0: absent, the falsy case of queue.ts:34)
    maxQueueSize,
    \* InMemoryQueueStorage.items
    items,
    \* the ids randomId() has handed out so far (the next fresh one)
    nextItemId,
    \* the OfflineQueue.enqueue calls, each with its position in the function
    enq,
    \* the OfflineQueue.flush pass called last and what it did; its field
    \* `earlier` holds the passes that were still running when it was called
    \* and are running still
    fl,
    \* history: the items in the order storage.add received them
    addedLog,
    \* history: the queue was not used one operation at a time (an operation
    \* was started while another was in progress), or the storage was
    \* emptied behind the queue
    overlapped

qvars == <<maxQueueSize, items, nextItemId, enq, fl, addedLog, overlapped>>

VARIABLES
    \* McpClientOptions.offline was given: the client owns an OfflineQueue
    hasQueue,
    \* OfflineOptions.isOnline was given
    hasOnlineCheck,
    \* the transport has a close method (client.ts:118)
    hasClose,
    \* McpClient.initialized, initResult, initPromise, initGeneration;
    \* initPromise is 0 when undefined, else the number of the attempt
    \* whose promise it holds
    initialized, initResult, initPromise, initGeneration,
    \* the McpClient.request calls, each with its position in the function
    creq,
    \* the initialize attempts: the promise chain built at client.ts:47-66
    att,
    \* the McpClient.close calls: how many were made, how many of them
    \* are at `await transport.close()`, whether one has raised
    cl,
    \* history: the McpClient.initialize calls and what each was answered with
    icalls

cvars == <<hasQueue, hasOnlineCheck, hasClose, initialized, initResult,
           initPromise, initGeneration, creq, att, cl, icalls>>

VARIABLES
    \* HttpTransport.retryPolicy: retries, baseDelayMs, maxDelayMs, and
    \* whether a retryOn predicate was given
    retryPolicy,
    \* HttpTransport.requestId: the id the next call gets
    requestId,
    \* HttpTransport.sessionId and protocolVersion
    sessionId, protocolVersion,
    \* the HttpTransport.request, stream and upload calls, in the order they
    \* were made, each with its position in the function
    tcalls,
    \* the HttpTransport.close calls
    tcl

tvars == <<retryPolicy, requestId, sessionId, protocolVersion, tcalls, tcl>>

VARIABLES
    \* one application of the SSE frame parser to a response: the text the
    \* server sends, how far the reader has got, the parser's buffer, what
    \* it has yielded and how it ended
    sse

svars == <<sse>>

VARIABLES
    \* HttpTransportOptions.headers, the base headers of every call
    headers,
    \* HttpTransportOptions.authProvider: its kind ("none" when the transport
    \* was built without one, "token" for a TokenAuthProvider, "static" for a
    \* StaticHeadersAuthProvider, "custom" for an AuthProvider of the
    \* application), and as history the number of setToken calls so far
    authProvider,
    \* what authProvider.getHeaders() resolves to (no entries when the
    \* transport has no auth provider)
    authHeaders

hvars == <<headers, authProvider, authHeaders>>

vars == <<qvars, cvars, tvars, svars, hvars>>

\* ------------------------------------------------- InMemoryQueueStorage

\* getAll: a copy of the list, taken when getAll is called
getAll(its) == its

\* add: push at the end
add(its, item) == Append(its, item)

\* remove: drop every item with this id
remove(its, id) == SelectSeq(its, LAMBDA x : x.id # id)

\* ----------------------------------------------------------- OfflineQueue

\* queue.ts:34, the eviction test on the list read at the start of enqueue
NeedsEviction(snap) == maxQueueSize # 0 /\ Len(snap) >= maxQueueSize

\* queue.ts:35, the item enqueue evicts
oldestNewest(snap) == snap[Len(snap)]
oldest(snap) == snap[1]

\* queue.ts:39-44, the new item; randomId() is modelled as a fresh id
\* (createdAt is never read by the queue and is left out)
NewItem(method) == [id |-> nextItemId, method |-> method]

EnqActive == \E i \in 1..Len(enq) : enq[i].pc \notin {"done", "threw"}

\* the flush passes: 0 is the pass called last, p > 0 an earlier one
Passes == 0..Len(fl.earlier)
PassAt(p) == IF p = 0 THEN fl ELSE fl.earlier[p]
PassActive(f) == f.pc \in {"getAll", "sender", "remove"}
\* pass p has taken a step to f; an earlier pass that has ended is forgotten
WithPass(p, f) ==
    IF p = 0 THEN f
    ELSE IF PassActive(f) THEN [fl EXCEPT !.earlier[p] = f]
    ELSE [fl EXCEPT !.earlier = SubSeq(@, 1, p - 1) \o SubSeq(@, p + 1, Len(@))]
FlushActive == \E p \in Passes : PassActive(PassAt(p))
\* the number of enqueue and flush calls in progress
OpsRunning ==
    Cardinality({i \in 1..Len(enq) : enq[i].pc \notin {"done", "threw"}})
      + Cardinality({p \in Passes : PassActive(PassAt(p))})

\* InMemoryQueueStorage.clear, queue.ts:20-22
storage_clear ==
    /\ items' = <<>>
    /\ overlapped' = TRUE
    /\ UNCHANGED <<maxQueueSize, nextItemId, enq, fl, addedLog>>

\* enqueue, up to `await storage.getAll()`.  owner = 0: called directly;
\* owner = r > 0: called by McpClient.request number r.
enqueue_begin(method, owner) ==
    /\ Len(enq) < MaxEnqueues
    /\ enq' = Append(enq, [pc |-> "getAll", snap |-> getAll(items),
                            method |-> method, owner |-> owner,
                            item |-> 0, evicted |-> 0])
    /\ overlapped' = (overlapped \/ EnqActive \/ FlushActive)

enqueue_call ==
    /\ \E m \in DirectMethods : enqueue_begin(m, 0)
    /\ UNCHANGED <<maxQueueSize, items, nextItemId, fl, addedLog>>

\* the storage.add call of queue.ts:45, up to its await
enqueue_add(i) ==
    LET item == NewItem(enq[i].method) IN
    /\ items' = add(items, item)
    /\ nextItemId' = nextItemId + 1
    /\ addedLog' = Append(addedLog, item)
    /\ enq' = [enq EXCEPT ![i].pc = "add", ![i].item = item.id,
                          ![i].snap = <<>>]

\* enqueue resumed after getAll: evict (up to `await storage.remove`) or
\* go on to the add
enqueue_afterGetAll(i) ==
    /\ enq[i].pc = "getAll"
    /\ IF NeedsEviction(enq[i].snap)
         THEN /\ items' = remove(items, oldest(enq[i].snap).id)
              /\ enq' = [enq EXCEPT ![i].pc = "remove",
                                    ![i].evicted = oldest(enq[i].snap).id]
              /\ UNCHANGED <<nextItemId, addedLog>>
         ELSE enqueue_add(i)
    /\ UNCHANGED <<maxQueueSize, fl, overlapped>>

\* enqueue resumed after the eviction's remove
enqueue_afterRemove(i) ==
    /\ enq[i].pc = "remove"
    /\ enqueue_add(i)
    /\ UNCHANGED <<maxQueueSize, fl, overlapped>>

\* enqueue resumed after add: onEnqueue observer, return item
enqueue_return(i) ==
    /\ enq[i].pc = "add"
    /\ enq' = [enq EXCEPT ![i].pc = "done"]
    /\ UNCHANGED <<maxQueueSize, items, nextItemId, fl, addedLog, overlapped>>

\* `await storage.getAll()` of queue.ts:33 rejected: enqueue rejects and
\* nothing was stored
enqueue_getAllThrows(i) ==
    /\ enq[i].pc = "getAll"
    /\ enq' = [enq EXCEPT ![i].pc = "threw", ![i].snap = <<>>]
    /\ UNCHANGED <<maxQueueSize, items, nextItemId, fl, addedLog, overlapped>>

\* the onEnqueue observer of queue.ts:46 raised: enqueue rejects after the
\* item was stored
enqueue_onEnqueueThrows(i) ==
    /\ enq[i].pc = "add"
    /\ enq' = [enq EXCEPT ![i].pc = "threw"]
    /\ UNCHANGED <<maxQueueSize, items, nextItemId, fl, addedLog, overlapped>>

\* flush, up to `await storage.getAll()`: a new pass, whatever earlier
\* passes are doing.  okLog is history: the ids of the items whose sender
\* has resolved, over all the passes so far, as long as the queue has been
\* used one operation at a time.
flush_call ==
    LET running == fl.earlier IN
    /\ fl' = [pc |-> "getAll", snap |-> getAll(items), k |-> 0,
              sendLog |-> <<>>, inFlight |-> 0, okLog |-> fl.okLog,
              earlier |-> IF PassActive(fl)
                            THEN Append(running, [fl EXCEPT !.okLog = <<>>,
                                                            !.earlier = <<>>])
                            ELSE running]
    /\ overlapped' = (overlapped \/ EnqActive \/ FlushActive)
    /\ UNCHANGED <<maxQueueSize, items, nextItemId, enq, addedLog>>

\* the loop of queue.ts:52: the item the next iteration sends
flushNextNewestFirst(f) == Len(f.snap) - f.k
flushNext(f) == f.k + 1

\* the loop head: the next item's sender is called, or the loop is over
flush_loop(f) ==
    IF Len(f.sendLog) < Len(f.snap)
      THEN [f EXCEPT !.pc = "sender", !.k = flushNext(f),
                     !.sendLog = Append(f.sendLog, f.snap[flushNext(f)].id),
                     !.inFlight = @ + 1]
      ELSE [f EXCEPT !.pc = "done"]

flush_afterGetAll(p) ==
    /\ PassAt(p).pc = "getAll"
    /\ fl' = WithPass(p, flush_loop(PassAt(p)))
    /\ UNCHANGED <<maxQueueSize, items, nextItemId, enq, addedLog, overlapped>>

\* what flush does when the sender of item k has resolved: remove it
flush_onSentKeep(its, f) == its
flush_onSent(its, f) == remove(its, f.snap[f.k].id)

\* what flush does to the storage when the sender of item k has rejected
flush_onFailRemove(its, f) == remove(its, f.snap[f.k].id)
flush_onFailRequeue(its, f) == Append(its, f.snap[f.k])
flush_onFail(its, f) == its

\* sender(item) resolved: storage.remove(item.id), up to its await
flush_senderOk(p) ==
    LET f == PassAt(p) IN
    /\ f.pc = "sender"
    /\ items' = flush_onSent(items, f)
    /\ fl' = [WithPass(p, [f EXCEPT !.pc = "remove", !.inFlight = @ - 1])
                EXCEPT !.okLog = IF overlapped THEN @
                                 ELSE Append(@, f.snap[f.k].id)]
    /\ UNCHANGED <<maxQueueSize, nextItemId, enq, addedLog, overlapped>>

\* sender(item) rejected: the error leaves flush
flush_senderFail(p) ==
    LET f == PassAt(p) IN
    /\ f.pc = "sender"
    /\ items' = flush_onFail(items, f)
    /\ fl' = WithPass(p, [f EXCEPT !.pc = "failed", !.inFlight = @ - 1])
    /\ UNCHANGED <<maxQueueSize, nextItemId, enq, addedLog, overlapped>>

flush_afterRemove(p) ==
    /\ PassAt(p).pc = "remove"
    /\ fl' = WithPass(p, flush_loop(PassAt(p)))
    /\ UNCHANGED <<maxQueueSize, items, nextItemId, enq, addedLog, overlapped>>

\* ---------------------------------------------------------- HttpTransport

\* ---- header maps (transport.ts:47-86).  A HeadersMap is a function from
\* header names to values; names that differ in letter case are different
\* keys, as in a JavaScript object.

NoHeaders == <<>>
\* { ...a, ...b }: the entries of b replace those of a with the same key
spread(a, b) == b @@ a

\* String.prototype.toLowerCase on the header names of the model
toLowerCase(name) ==
    CASE name = "Authorization" -> "authorization"
      [] name = "X-Api-Key" -> "x-api-key"
      [] name = "SET-COOKIE" -> "set-cookie"
      [] name = "Accept" -> "accept"
      [] name = "Content-Type" -> "content-type"
      [] OTHER -> name

\* what a caller may configure, as base headers or through the auth
\* provider: no header, or one header
HeaderNames ==
    {"Authorization", "cookie", "X-Api-Key", "SET-COOKIE", "mcp-session-id",
     "Accept"}
HeaderValues == {"v1", "v2"}
\* the header maps a transport is built with, as base headers or as what the
\* auth provider resolves to at first (setToken gives the other value)
HeaderMaps == {NoHeaders} \cup {name :> "v1" : name \in HeaderNames}

\* the auth provider of a transport
ProviderKinds == {"none", "token", "static", "custom"}
Provider(kind) == [kind |-> kind, setTokens |-> 0]
NoProvider == Provider("none")
\* the tokens setToken is called with: the empty one (signed out) and the
\* one that follows the first
Tokens == {"", "v2"}
\* TokenAuthProvider.getHeaders, auth.ts:16-21: nothing for an empty token,
\* else the Authorization header of the token
tokenHeaders(token) ==
    IF token = "" THEN NoHeaders ELSE "Authorization" :> token
\* what getHeaders() of a new provider of this kind may resolve to:
\* `new TokenAuthProvider(token)` with no token or the first one,
\* `new StaticHeadersAuthProvider(headers)` (auth.ts:32-34), and for an
\* AuthProvider of the application a credential
ProvidedHeaders(provider) ==
    CASE provider.kind = "none" -> {NoHeaders}
      [] provider.kind = "token" -> {tokenHeaders(token) : token \in {"", "v1"}}
      [] provider.kind = "static" -> HeaderMaps
      [] OTHER -> {tokenHeaders("v1")}
\* the base headers a transport with this provider is built with: any map
\* beside a provider whose headers never change, and beside one whose
\* headers change or fail no header, a cookie, or an Authorization header
\* of the application's own
BaseHeaders(provider) ==
    IF provider.kind \in {"none", "static"} THEN HeaderMaps
    ELSE {NoHeaders, "cookie" :> "v1", "Authorization" :> "v1"}

\* transport.ts:74-86
sensitive == {"authorization", "cookie", "set-cookie", "x-api-key"}
redactHeadersCaseSensitive(hs) ==
    [key \in DOMAIN hs |-> IF key \in sensitive THEN "[redacted]" ELSE hs[key]]
redactHeaders(hs) ==
    [key \in DOMAIN hs |->
       IF toLowerCase(key) \in sensitive THEN "[redacted]" ELSE hs[key]]

\* transport.ts:47-59 and :61-72, with what authProvider.getHeaders()
\* resolved to ({} when there is no provider)
buildHeaders(base, auth, extra) ==
    spread(spread(spread("Content-Type" :> "application/json", base), auth), extra)
buildUploadHeaders(base, auth, extra) == spread(spread(base, auth), extra)

\* the session headers a call captured, as extraHeaders
sessionExtra(hdr) ==
    (IF hdr.sid = Undefined THEN NoHeaders ELSE "mcp-session-id" :> hdr.sid)
      @@ (IF hdr.pv = Undefined THEN NoHeaders
          ELSE "mcp-protocol-version" :> hdr.pv)

\* the headers of the POST of request (transport.ts:239-241), of stream
\* (:384-396) and of upload (:435-445)
requestHeaders(base, auth, hdr) ==
    spread(buildHeaders(base, auth, sessionExtra(hdr)),
           "Accept" :> "application/json, text/event-stream")
streamHeaders(base, auth, hdr) ==
    buildHeaders(base, auth,
                 spread("Accept" :> "text/event-stream", sessionExtra(hdr)))
uploadHeaders(base, auth, hdr) ==
    buildUploadHeaders(base, auth, sessionExtra(hdr))
\* the headers of the DELETE of close (transport.ts:497-508)
closeHeaders(base, auth, hdr) == spread(spread(base, sessionExtra(hdr)), auth)

\* transport.ts:38-43
defaultRetries == 2
defaultBaseDelayMs == 300
defaultMaxDelayMs == 2000
\* transport.ts:317 and :333
defaultProtocolVersion == "2024-11-05"

RECURSIVE Pow2(_)
Pow2(n) == IF n = 0 THEN 1 ELSE 2 * Pow2(n - 1)
Min(a, b) == IF a <= b THEN a ELSE b

\* transport.ts:364-365
isClientErrorNot400(error) == error.status > 400 /\ error.status < 500
isClientErrorOrEnvelope(error) ==
    \/ error.status >= 400 /\ error.status < 500
    \/ error.kind = "jsonrpc"
isClientError(error) == error.status >= 400 /\ error.status < 500

\* what `this.retryPolicy.retryOn?.(error, attempt) ?? true` may be; the
\* predicate is not called for a client error (&& short-circuits)
RetryOnAnswers(error) ==
    IF isClientError(error) THEN {FALSE}
    ELSE IF retryPolicy.retryOn THEN BOOLEAN ELSE {TRUE}

\* transport.ts:366-367
shouldRetry(error, answer) == ~isClientError(error) /\ answer

\* transport.ts:370-373
backoffUncapped(attempt) == retryPolicy.baseDelayMs * Pow2(attempt)
backoff(attempt) ==
    Min(retryPolicy.baseDelayMs * Pow2(attempt), retryPolicy.maxDelayMs)

\* the condition of the attempt loop, transport.ts:213
loopContinues(attempt) == attempt <= retryPolicy.retries
\* transport.ts:378
RetriesExhausted == [kind |-> "exhausted", status |-> 0]

\* TransportRequestOptions: a timeout in ms (0: none given) and whether the
\* caller gave a signal
NoOptions == [timeoutMs |-> 0, signal |-> FALSE]
RequestOptions == [timeoutMs : {0, 1}, signal : BOOLEAN]
\* the signal of a fetch: none, the caller's, or that of the n-th
\* AbortController the call created (n >= 1)
NoSignal == 0
CallerSignal == -1
\* transport.ts:254-255
derivesSignal(options) == options.timeoutMs # 0 /\ ~options.signal
\* what fetch rejects with when its signal aborts
AbortError == [kind |-> "abort", status |-> 0]

lastAttemptLate(attempt) == attempt > retryPolicy.retries

\* transport.ts:369, the attempt was the last one
lastAttempt(attempt) == attempt >= retryPolicy.retries

\* no session headers; also what an initialize response carried, before it
\* is known
NoSession == [sid |-> Undefined, pv |-> Undefined]

\* the head of the attempt loop, transport.ts:216-237: initialize clears the
\* session, any other method takes the session headers the transport holds
sessionHeadersNoVersion(method) ==
    [sid |-> IF method = "initialize" THEN Undefined ELSE sessionId,
     pv |-> Undefined]
sessionHeaders(method) ==
    IF method = "initialize"
      THEN [sid |-> Undefined, pv |-> Undefined]
      ELSE [sid |-> sessionId, pv |-> protocolVersion]

loopTop(method) ==
    IF method = "initialize"
      THEN sessionId' = Undefined /\ protocolVersion' = Undefined
      ELSE UNCHANGED <<sessionId, protocolVersion>>

InFlightInit(c) == c.method = "initialize" /\ c.pc # "done"

\* history: every initialize call in flight has now seen close() or a newer
\* initialize start
Supersede(cs) == [i \in 1..Len(cs) |->
                    IF InFlightInit(cs[i]) THEN [cs[i] EXCEPT !.superseded = TRUE]
                                           ELSE cs[i]]

\* HttpTransport.request, transport.ts:207-239, up to `await buildHeaders`
transport_request_callWith(method, options) ==
    /\ Len(tcalls) < MaxTransportCalls
    /\ requestId' = requestId + 1
    /\ IF loopContinues(0) THEN loopTop(method)
                            ELSE UNCHANGED <<sessionId, protocolVersion>>
    /\ tcalls' = Append(IF method = "initialize" /\ loopContinues(0)
                          THEN Supersede(tcalls) ELSE tcalls,
                        [op |-> "request", method |-> method, id |-> requestId,
                         attempt |-> 0,
                         pc |-> IF loopContinues(0) THEN "buildHeaders" ELSE "done",
                         hdr |-> sessionHeaders(method),
                         auth |-> authHeaders,
                         posts |-> 0, resp |-> 0, delays |-> <<>>,
                         errs |-> <<>>,
                         denied |-> FALSE, superseded |-> FALSE,
                         got |-> NoSession, file |-> "none",
                         sent |-> NoHeaders, logged |-> NoHeaders,
                         options |-> options, controllers |-> 0,
                         signal |-> NoSignal, timers |-> {},
                         abortedBy |-> <<>>,
                         outcome |-> IF loopContinues(0) THEN NoOutcome
                                     ELSE RetriesExhausted])
    /\ UNCHANGED <<retryPolicy, tcl>>

\* a call without options
transport_request_call(method) == transport_request_callWith(method, NoOptions)

transport_request_afterBuildHeadersOneController(c) ==
    /\ tcalls[c].pc = "buildHeaders"
    /\ LET hs == requestHeaders(headers, tcalls[c].auth, tcalls[c].hdr)
           derived == derivesSignal(tcalls[c].options)
           first == tcalls[c].controllers = 0
       IN  tcalls' = [tcalls EXCEPT
                        ![c].pc = "fetch", ![c].posts = @ + 1,
                        ![c].sent = hs, ![c].logged = redactHeaders(hs),
                        ![c].controllers = IF derived THEN 1 ELSE @,
                        ![c].timers = IF derived /\ first THEN {1} ELSE @,
                        ![c].signal = IF tcalls[c].options.signal THEN CallerSignal
                                      ELSE IF derived THEN 1
                                      ELSE NoSignal]
    /\ UNCHANGED <<retryPolicy, requestId, sessionId, protocolVersion, tcl>>
\* headers built: the signal of the attempt is chosen and the POST is sent,
\* transport.ts:239-264
transport_request_afterBuildHeaders(c) ==
    /\ tcalls[c].pc = "buildHeaders"
    /\ LET hs == requestHeaders(headers, tcalls[c].auth, tcalls[c].hdr)
           derived == derivesSignal(tcalls[c].options)
           controller == tcalls[c].controllers + 1
       IN  tcalls' = [tcalls EXCEPT
                        ![c].pc = "fetch", ![c].posts = @ + 1,
                        ![c].sent = hs, ![c].logged = redactHeaders(hs),
                        ![c].controllers = IF derived THEN controller ELSE @,
                        ![c].timers = IF derived THEN @ \cup {controller} ELSE @,
                        ![c].signal = IF tcalls[c].options.signal THEN CallerSignal
                                      ELSE IF derived THEN controller
                                      ELSE NoSignal]
    /\ UNCHANGED <<retryPolicy, requestId, sessionId, protocolVersion, tcl>>

\* the transport was built with an auth provider, whatever its getHeaders()
\* resolves to (transport.ts:507, `this.authProvider ? ... : {}`)
HasAuthProvider == authProvider.kind # "none"
\* getHeaders() may reject: TokenAuthProvider and StaticHeadersAuthProvider
\* always resolve (auth.ts:16-21, :32-34), an AuthProvider of the application
\* need not
AuthProviderMayReject == authProvider.kind = "custom"
\* getHeaders() is called and not awaited yet: it returns (a promise or the
\* headers, types.ts:49), or it throws before it returns
GetHeadersThrows == IF AuthProviderMayReject THEN BOOLEAN ELSE {FALSE}

\* what a rejecting authProvider.getHeaders() raises: an error without a
\* status, or one that carries the status of a refusal (the catch block reads
\* `error.status` whatever raised the error, transport.ts:364-365)
AuthFailure == [kind |-> "auth", status |-> 0]
AuthDenied == [kind |-> "auth", status |-> 401]
AuthErrors == {AuthFailure, AuthDenied}

\* the catch block, transport.ts:362-375: raise, or wait backoff and retry
caught(call, error, answer) ==
    IF ~shouldRetry(error, answer) \/ lastAttempt(call.attempt)
      THEN [call EXCEPT !.pc = "done", !.outcome = error,
                        !.errs = Append(@, error),
                        !.denied = @ \/ (~isClientError(error) /\ ~answer)]
      ELSE [call EXCEPT !.pc = "delay", !.errs = Append(@, error),
                        !.delays = Append(@, backoff(call.attempt))]

\* `await fetch` rejected, transport.ts:259-264: no response, the error has
\* no status
transport_request_fetchFailed(c) ==
    /\ tcalls[c].pc = "fetch"
    /\ \E answer \in RetryOnAnswers(NetworkFailure) :
         tcalls' = [tcalls EXCEPT ![c] = caught(tcalls[c], NetworkFailure, answer)]
    /\ UNCHANGED <<retryPolicy, requestId, sessionId, protocolVersion, tcl>>

\* fetch answered with a status that is not ok, transport.ts:265-268: the
\* text of the response is awaited inside a try of its own
transport_request_responseNotOk(c) ==
    /\ tcalls[c].pc = "fetch"
    /\ \E status \in Statuses \ {200} :
         tcalls' = [tcalls EXCEPT ![c].pc = "errorText", ![c].resp = status]
    /\ UNCHANGED <<retryPolicy, requestId, sessionId, protocolVersion, tcl>>

\* the text of the error response was read, or reading it raised (an abort
\* of the attempt's signal included) and the inner catch ignored that,
\* transport.ts:268-284: the error with the status is raised and caught
transport_request_afterErrorText(c) ==
    /\ tcalls[c].pc = "errorText"
    /\ LET error == HttpError(tcalls[c].resp) IN
       \E answer \in RetryOnAnswers(error) :
         tcalls' = [tcalls EXCEPT ![c] =
                      [caught(tcalls[c], error, answer) EXCEPT !.resp = 0]]
    /\ UNCHANGED <<retryPolicy, requestId, sessionId, protocolVersion, tcl>>

\* `await buildHeaders` raised what authProvider.getHeaders() rejected with,
\* transport.ts:239 and :47-59: no POST is sent and nothing is logged as the
\* start of the request; the error is caught like any other
transport_request_getHeadersRejected(c) ==
    /\ tcalls[c].pc = "buildHeaders"
    /\ AuthProviderMayReject
    /\ \E error \in AuthErrors : \E answer \in RetryOnAnswers(error) :
         tcalls' = [tcalls EXCEPT ![c] = caught(tcalls[c], error, answer)]
    /\ UNCHANGED <<retryPolicy, requestId, sessionId, protocolVersion, tcl>>

\* fetch answered 2xx to initialize: the mcp-session-id header is taken,
\* transport.ts:302-309, then the body is awaited
transport_request_initializeResponse(c) ==
    /\ tcalls[c].pc = "fetch"
    /\ tcalls[c].method = "initialize"
    /\ \E sessionIdHeader \in SessionIds \cup {Undefined} :
         /\ sessionId' = IF sessionIdHeader # Undefined THEN sessionIdHeader
                                                        ELSE sessionId
         /\ tcalls' = [tcalls EXCEPT ![c].pc = "body",
                                     ![c].got.sid = sessionIdHeader]
    /\ UNCHANGED <<retryPolicy, requestId, protocolVersion, tcl>>

\* the body of the initialize response decoded to a result,
\* transport.ts:313-340
transport_request_initializeResult(c) ==
    /\ tcalls[c].pc = "body"
    /\ \E pv \in {NegotiatedVersion, Undefined} :
         /\ protocolVersion' = IF pv # Undefined THEN pv
                                                ELSE defaultProtocolVersion
         /\ tcalls' = [tcalls EXCEPT ![c].pc = "done", ![c].outcome = Result,
                                     ![c].got.pv = pv]
    /\ UNCHANGED <<retryPolicy, requestId, sessionId, tcl>>

\* decoding the body of a 2xx response raised: caught like any error
transport_request_bodyFailed(c) ==
    /\ \/ tcalls[c].pc = "body"
       \/ tcalls[c].pc = "fetch" /\ tcalls[c].method # "initialize"
    /\ \E answer \in RetryOnAnswers(BodyError) :
         tcalls' = [tcalls EXCEPT ![c] = caught(tcalls[c], BodyError, answer)]
    /\ UNCHANGED <<retryPolicy, requestId, sessionId, protocolVersion, tcl>>

\* fetch answered 2xx to another method and the body decoded to a result,
\* transport.ts:343-361
transport_request_result(c) ==
    /\ tcalls[c].pc = "fetch"
    /\ tcalls[c].method # "initialize"
    /\ tcalls' = [tcalls EXCEPT ![c].pc = "done", ![c].outcome = Result]
    /\ UNCHANGED <<retryPolicy, requestId, sessionId, protocolVersion, tcl>>

\* the backoff delay is over: the next attempt begins, transport.ts:213-239
transport_request_afterDelay(c) ==
    /\ tcalls[c].pc = "delay"
    /\ IF loopContinues(tcalls[c].attempt + 1)
         THEN /\ loopTop(tcalls[c].method)
              /\ tcalls' = [tcalls EXCEPT
                              ![c].pc = "buildHeaders", ![c].attempt = @ + 1,
                              ![c].hdr = sessionHeaders(tcalls[c].method),
                              ![c].auth = authHeaders]
         ELSE /\ tcalls' = [tcalls EXCEPT ![c].pc = "done", ![c].attempt = @ + 1,
                                          ![c].outcome = RetriesExhausted]
              /\ UNCHANGED <<sessionId, protocolVersion>>
    /\ UNCHANGED <<retryPolicy, requestId, tcl>>

\* the timer of controller j, armed in an earlier or in the current attempt
\* (transport.ts:256-258), fires: the controller aborts, and a fetch that
\* was given its signal rejects
transport_request_timerFired(c, j) ==
    /\ j \in tcalls[c].timers
    /\ IF tcalls[c].pc \in {"fetch", "body"} /\ tcalls[c].signal = j
         THEN \E answer \in RetryOnAnswers(AbortError) :
                tcalls' = [tcalls EXCEPT ![c] =
                             [caught(tcalls[c], AbortError, answer) EXCEPT
                                !.timers = @ \ {j},
                                !.abortedBy =
                                   Append(@, [attempt |-> tcalls[c].attempt,
                                              controller |-> j])]]
         ELSE tcalls' = [tcalls EXCEPT ![c].timers = @ \ {j}]
    /\ UNCHANGED <<retryPolicy, requestId, sessionId, protocolVersion, tcl>>

\* history: the caller's signal has aborted a fetch of this call
CallerAborted(call) ==
    \E i \in 1..Len(call.abortedBy) : call.abortedBy[i].controller = CallerSignal

\* the caller's signal aborts, or has aborted before: the fetch that was
\* given it (transport.ts:263) rejects with an AbortError, which has no
\* status and is caught like any error (transport.ts:362-375)
transport_request_callerAborted(c) ==
    /\ tcalls[c].pc \in {"fetch", "body"}
    /\ tcalls[c].signal = CallerSignal
    /\ \E answer \in RetryOnAnswers(AbortError) :
         tcalls' = [tcalls EXCEPT ![c] =
                      [caught(tcalls[c], AbortError, answer) EXCEPT
                         !.abortedBy =
                            Append(@, [attempt |-> tcalls[c].attempt,
                                       controller |-> CallerSignal])]]
    /\ UNCHANGED <<retryPolicy, requestId, sessionId, protocolVersion, tcl>>
\* a stream or upload call before its first await: the session headers the
\* transport holds are taken, whatever the method (transport.ts:384-394,
\* :435-443)
NewTransfer(op, method, file) ==
    [op |-> op, method |-> method, id |-> 0, attempt |-> 0,
     pc |-> "transferHeaders",
     hdr |-> [sid |-> sessionId, pv |-> protocolVersion],
     auth |-> authHeaders,
     posts |-> 0, resp |-> 0, delays |-> <<>>, errs |-> <<>>,
     denied |-> FALSE, superseded |-> FALSE,
     got |-> NoSession, file |-> file,
     sent |-> NoHeaders, logged |-> NoHeaders,
     options |-> NoOptions, controllers |-> 0, signal |-> NoSignal,
     timers |-> {}, abortedBy |-> <<>>, outcome |-> NoOutcome]

\* HttpTransport.stream started (first next() of the generator),
\* transport.ts:381-396, up to `await buildHeaders`
transport_stream_call(method) ==
    /\ Len(tcalls) < MaxTransportCalls
    /\ tcalls' = Append(tcalls, NewTransfer("stream", method, "none"))
    /\ UNCHANGED <<retryPolicy, requestId, sessionId, protocolVersion, tcl>>

\* stream: headers built, the id is drawn and the POST sent,
\* transport.ts:396-415
transport_stream_afterBuildHeadersSameId(c) ==
    /\ tcalls[c].op = "stream"
    /\ tcalls[c].pc = "transferHeaders"
    /\ requestId' = requestId
    /\ LET hs == streamHeaders(headers, tcalls[c].auth, tcalls[c].hdr)
       IN  tcalls' = [tcalls EXCEPT ![c].pc = "transferFetch",
                                    ![c].id = requestId, ![c].posts = @ + 1,
                                    ![c].sent = hs,
                                    ![c].logged = redactHeaders(hs)]
    /\ UNCHANGED <<retryPolicy, sessionId, protocolVersion, tcl>>
transport_stream_afterBuildHeaders(c) ==
    /\ tcalls[c].op = "stream"
    /\ tcalls[c].pc = "transferHeaders"
    /\ requestId' = requestId + 1
    /\ LET hs == streamHeaders(headers, tcalls[c].auth, tcalls[c].hdr)
       IN  tcalls' = [tcalls EXCEPT ![c].pc = "transferFetch",
                                    ![c].id = requestId, ![c].posts = @ + 1,
                                    ![c].sent = hs,
                                    ![c].logged = redactHeaders(hs)]
    /\ UNCHANGED <<retryPolicy, sessionId, protocolVersion, tcl>>

transport_transfer_afterFetchRetrying(c) ==
    /\ tcalls[c].op \in {"stream", "upload"}
    /\ tcalls[c].pc = "transferFetch"
    /\ \E answer \in {NetworkFailure, BodyError, Result}
                       \cup {HttpError(st) : st \in Statuses \ {200}} :
         tcalls' = IF answer # Result /\ ~lastAttempt(tcalls[c].attempt)
                     THEN [tcalls EXCEPT ![c].attempt = @ + 1, ![c].posts = @ + 1,
                                         ![c].errs = Append(@, answer)]
                     ELSE [tcalls EXCEPT ![c].pc = "done", ![c].outcome = answer,
                                         ![c].errs = IF answer = Result THEN @
                                                     ELSE Append(@, answer)]
    /\ UNCHANGED <<retryPolicy, requestId, sessionId, protocolVersion, tcl>>
\* stream or upload: the one POST was answered or failed,
\* transport.ts:410-429 and :470-486; nothing is retried
transport_transfer_afterFetch(c) ==
    /\ tcalls[c].op \in {"stream", "upload"}
    /\ tcalls[c].pc = "transferFetch"
    /\ \E answer \in {NetworkFailure, BodyError, Result}
                       \cup {HttpError(st) : st \in Statuses \ {200}} :
         tcalls' = [tcalls EXCEPT ![c].pc = "done", ![c].outcome = answer,
                                  ![c].errs = IF answer = Result THEN @
                                              ELSE Append(@, answer)]
    /\ UNCHANGED <<retryPolicy, requestId, sessionId, protocolVersion, tcl>>

\* what a FileLike holds: in-memory data, a URI, both or neither
FileKinds == {"data", "uri", "both", "neither"}

\* transport.ts:462-468
MissingFileData == [kind |-> "file", status |-> 0]
fileAccepted(file) == file # "neither"

\* HttpTransport.upload, transport.ts:432-445, up to `await buildUploadHeaders`
transport_upload_call(file) ==
    /\ Len(tcalls) < MaxTransportCalls
    /\ tcalls' = Append(tcalls, NewTransfer("upload", "upload", file))
    /\ UNCHANGED <<retryPolicy, requestId, sessionId, protocolVersion, tcl>>

\* upload: headers built, the form is filled and the POST sent, or the
\* file is refused, transport.ts:445-474
transport_upload_afterBuildHeaders(c) ==
    /\ tcalls[c].op = "upload"
    /\ tcalls[c].pc = "transferHeaders"
    /\ LET hs == uploadHeaders(headers, tcalls[c].auth, tcalls[c].hdr)
       IN  tcalls' = IF fileAccepted(tcalls[c].file)
                       THEN [tcalls EXCEPT ![c].pc = "transferFetch",
                                           ![c].posts = @ + 1, ![c].sent = hs,
                                           ![c].logged = redactHeaders(hs)]
                       ELSE [tcalls EXCEPT ![c].pc = "done",
                                           ![c].logged = redactHeaders(hs),
                                           ![c].outcome = MissingFileData,
                                           ![c].errs = Append(@, MissingFileData)]
    /\ UNCHANGED <<retryPolicy, requestId, sessionId, protocolVersion, tcl>>

\* stream and upload: `await buildHeaders` (transport.ts:396) or
\* `await buildUploadHeaders` (transport.ts:445) raised what
\* authProvider.getHeaders() rejected with; the call rejects with it, no id is
\* drawn and no POST is sent
transport_transfer_getHeadersRejected(c) ==
    /\ tcalls[c].op \in {"stream", "upload"}
    /\ tcalls[c].pc = "transferHeaders"
    /\ AuthProviderMayReject
    /\ \E error \in AuthErrors :
         tcalls' = [tcalls EXCEPT ![c].pc = "done", ![c].outcome = error,
                                  ![c].errs = Append(@, error)]
    /\ UNCHANGED <<retryPolicy, requestId, sessionId, protocolVersion, tcl>>

\* the statuses a server answers the DELETE of a session with
DeleteStatuses == {200, 204, 404, 500}

\* transport.ts:521, `!response.ok && response.status !== 404` is false
terminated(answer) ==
    answer.kind = "http" /\ (answer.status \in 200..299 \/ answer.status = 404)

\* HttpTransport.close, transport.ts:489-519: nothing without a session;
\* else the headers of the DELETE are built from the session held at the
\* call, and the DELETE is sent at once when there is no auth provider, after
\* `await this.authProvider.getHeaders()` when there is one. getHeaders() is
\* called here, so its result is what the provider holds now; when it throws
\* before it returns, close() rejects within the call.
transport_close_call ==
    /\ Len(tcl) < MaxTransportCloses
    /\ \E throws \in GetHeadersThrows :
       LET held == [sid |-> sessionId, pv |-> protocolVersion]
       IN  tcl' = Append(tcl,
                    IF sessionId = Undefined
                      THEN [pc |-> "done", hdr |-> NoSession, auth |-> NoHeaders,
                            sid |-> Undefined, pv |-> Undefined,
                            raised |-> FALSE, deletes |-> 0,
                            answer |-> NoOutcome, sent |-> NoHeaders,
                            seen |-> Len(tcalls)]
                    ELSE IF HasAuthProvider /\ throws
                      THEN [pc |-> "done", hdr |-> held,
                            auth |-> authHeaders,
                            sid |-> Undefined, pv |-> Undefined,
                            raised |-> TRUE, deletes |-> 0,
                            answer |-> NoOutcome, sent |-> NoHeaders,
                            seen |-> Len(tcalls)]
                    ELSE IF HasAuthProvider
                      THEN [pc |-> "beforeFetch", hdr |-> held,
                            auth |-> authHeaders,
                            sid |-> Undefined, pv |-> Undefined,
                            raised |-> FALSE, deletes |-> 0,
                            answer |-> NoOutcome, sent |-> NoHeaders,
                            seen |-> Len(tcalls)]
                    ELSE [pc |-> "fetch", hdr |-> held, auth |-> NoHeaders,
                          sid |-> sessionId, pv |-> protocolVersion,
                          raised |-> FALSE, deletes |-> 1,
                          answer |-> NoOutcome,
                          sent |-> closeHeaders(headers, NoHeaders, held),
                          seen |-> Len(tcalls)])
    /\ tcalls' = Supersede(tcalls)
    /\ UNCHANGED <<retryPolicy, requestId, sessionId, protocolVersion>>

\* the auth provider answered, transport.ts:507-516: its headers are merged
\* into the headers built at the call and the DELETE is sent
transport_close_afterGetHeaders(k) ==
    /\ tcl[k].pc = "beforeFetch"
    /\ tcl' = [tcl EXCEPT ![k].pc = "fetch", ![k].deletes = 1,
                          ![k].sid = tcl[k].hdr.sid, ![k].pv = tcl[k].hdr.pv,
                          ![k].sent = closeHeaders(headers, tcl[k].auth,
                                                   tcl[k].hdr)]
    /\ UNCHANGED <<retryPolicy, requestId, sessionId, protocolVersion, tcalls>>

\* the auth provider rejected, transport.ts:507: the await is outside the
\* try, so close() rejects with no DELETE sent and the session still held
transport_close_getHeadersRejected(k) ==
    /\ tcl[k].pc = "beforeFetch"
    /\ AuthProviderMayReject
    /\ tcl' = [tcl EXCEPT ![k].pc = "done", ![k].raised = TRUE]
    /\ UNCHANGED <<retryPolicy, requestId, sessionId, protocolVersion, tcalls>>

\* TokenAuthProvider.setToken, auth.ts:12-14: from now on getHeaders()
\* resolves to the Authorization header of the new token, to nothing when
\* the new token is empty
authProvider_setToken(token) ==
    /\ authProvider.kind = "token"
    /\ authProvider.setTokens < MaxSetTokens
    /\ tokenHeaders(token) # authHeaders
    /\ authHeaders' = tokenHeaders(token)
    /\ authProvider' = [authProvider EXCEPT !.setTokens = @ + 1]
    /\ UNCHANGED headers

\* the DELETE was answered or failed, transport.ts:521-534: the session is
\* cleared; a failure or a status other than 2xx and 404 is raised again
transport_close_afterFetch(k) ==
    /\ tcl[k].pc = "fetch"
    /\ \E answer \in {NetworkFailure} \cup {HttpError(st) : st \in DeleteStatuses} :
         tcl' = [tcl EXCEPT ![k].pc = "done", ![k].answer = answer,
                            ![k].raised = ~terminated(answer)]
    /\ sessionId' = Undefined
    /\ protocolVersion' = Undefined
    /\ UNCHANGED <<retryPolicy, requestId, tcalls>>

\* ------------------------------------------------------- queue properties

LastN(s, n) == IF Len(s) <= n THEN s ELSE SubSeq(s, Len(s) - n + 1, Len(s))
Ids(s) == [j \in 1..Len(s) |-> s[j].id]
NoFlushYet == fl.pc = "idle"

\* C7: flush calls the sender on the items in stored order and removes an
\* item only after its sender succeeded; when the sender fails on item k
\* flush stops and raises, items 1..k-1 are gone and items k..end are still
\* queued in their original order (a flush pass that no other queue
\* operation overlaps).
C7_FlushRemovesOnlyAfterSuccess ==
    /\ [](~overlapped =>
            /\ fl.pc = "sender" =>
                 /\ items = SubSeq(fl.snap, fl.k, Len(fl.snap))
                 /\ fl.sendLog = Ids(SubSeq(fl.snap, 1, fl.k))
            /\ fl.pc = "remove" =>
                 items = SubSeq(fl.snap, fl.k + 1, Len(fl.snap)))
    /\ [][(~overlapped /\ fl.pc = "sender" /\ fl'.pc = "failed") =>
            /\ items' = SubSeq(fl.snap, fl.k, Len(fl.snap))
            /\ fl'.sendLog = Ids(SubSeq(fl.snap, 1, fl.k))
            /\ fl'.k = fl.k]_vars
    /\ [][(~overlapped /\ fl.pc # "done" /\ fl'.pc = "done") =>
            /\ items' = <<>>
            /\ fl'.sendLog = Ids(fl.snap)]_vars

\* a flush of three stored items whose sender failed on the second
C7_Witness ==
    /\ ~overlapped
    /\ fl.pc = "failed"
    /\ Len(fl.snap) = 3
    /\ fl.k = 2
    /\ Ids(items) = <<fl.snap[2].id, fl.snap[3].id>>

\* C8: on a queue bounded to N >= 1 that starts empty, sequential enqueue
\* calls leave exactly the last N enqueued items in their original order;
\* an eviction removes only the single oldest item and the item just
\* enqueued is retained.
C8_SequentialEnqueueKeepsLastN ==
    (~overlapped /\ NoFlushYet /\ maxQueueSize >= 1) =>
        /\ ~EnqActive => items = LastN(addedLog, maxQueueSize)
        /\ \A i \in 1..Len(enq) :
             /\ enq[i].pc = "remove" =>
                  /\ items = LastN(addedLog, maxQueueSize - 1)
                  /\ enq[i].evicted = addedLog[Len(addedLog) - maxQueueSize + 1].id
             /\ (enq[i].pc \in {"add", "done"} /\ i = Len(enq)) =>
                  /\ items = LastN(addedLog, maxQueueSize)
                  /\ items[Len(items)].id = enq[i].item

\* N+1 sequential enqueues on a queue bounded to N = 2
C8_Witness ==
    /\ ~overlapped /\ NoFlushYet /\ ~EnqActive
    /\ maxQueueSize = 2
    /\ Len(addedLog) = 3
    /\ Ids(items) = <<addedLog[2].id, addedLog[3].id>>
    /\ enq[3].evicted = addedLog[1].id

\* C9: with maxQueueSize = N configured, whenever no enqueue is in
\* progress the storage holds at most N items, for every interleaving of
\* concurrent enqueue calls.
C9_QueueStaysBounded ==
    (maxQueueSize >= 1 /\ ~EnqActive) => Len(items) <= maxQueueSize

\* -------------------------------------------------------------- McpClient

\* client.ts:80 and :89, `if (this.queue)`
QueueConfiguredNever == FALSE
QueueConfigured == hasQueue

\* McpClient.flushQueue, client.ts:109-114: nothing without a queue;
\* otherwise queue.flush with a sender that awaits transport.request
flushQueue_call ==
    IF QueueConfigured THEN flush_call ELSE UNCHANGED qvars
\* what options.isOnline may answer; queue.ts:59: true when it is absent
OnlineOutcomes ==
    IF hasOnlineCheck THEN {"online", "offline", "throws"} ELSE {"online"}

\* McpClient.request up to its first await: `await this.queue.isOnline()`
\* with a queue, else the transport.request call of client.ts:87.
\* tx counts the transport.request calls this call has made; inCatch tells
\* that the call has entered its catch block (client.ts:88).
NewRequest(method) ==
    [method |-> method,
     pc |-> IF QueueConfigured THEN "isOnline" ELSE "transport",
     tx |-> IF QueueConfigured THEN 0 ELSE 1,
     online |-> Undefined, failed |-> FALSE, enqIdx |-> 0,
     inCatch |-> FALSE, res |-> Undefined]

\* a plain McpClient.request call (listTools, callTool)
request_call ==
    /\ Len(creq) < MaxClientRequests
    /\ \E m \in Methods : creq' = Append(creq, NewRequest(m))
    /\ UNCHANGED <<hasQueue, hasOnlineCheck, hasClose, initialized,
                   initResult, initPromise, initGeneration, att, cl, icalls>>
    /\ UNCHANGED qvars

\* request resumed after isOnline(): client.ts:82-87; an isOnline that
\* raised lands in the catch block, client.ts:88-93
request_afterIsOnline(r) ==
    /\ creq[r].pc = "isOnline"
    /\ \E o \in OnlineOutcomes :
         IF o = "online"
           THEN /\ creq' = [creq EXCEPT ![r].pc = "transport", ![r].tx = 1,
                                        ![r].online = o]
                /\ UNCHANGED qvars
           ELSE /\ enqueue_begin(creq[r].method, r)
                /\ creq' = [creq EXCEPT ![r].pc = "enqueue", ![r].online = o,
                                        ![r].inCatch = (o = "throws"),
                                        ![r].enqIdx = Len(enq) + 1]
                /\ UNCHANGED <<maxQueueSize, items, nextItemId, fl, addedLog>>
    /\ UNCHANGED <<hasQueue, hasOnlineCheck, hasClose, initialized,
                   initResult, initPromise, initGeneration, att, cl, icalls>>

\* transport.request resolved: client.ts:87 returns its result
request_transportResolved(r) ==
    /\ creq[r].pc = "transport"
    /\ \E v \in Results : creq' = [creq EXCEPT ![r].pc = "done", ![r].res = v]
    /\ UNCHANGED <<hasQueue, hasOnlineCheck, hasClose, initialized,
                   initResult, initPromise, initGeneration, att, cl, icalls>>
    /\ UNCHANGED qvars

\* transport.request rejected: the catch block of client.ts:88-95
request_transportRejected(r) ==
    /\ creq[r].pc = "transport"
    /\ \E e \in Errors :
         IF QueueConfigured
           THEN /\ enqueue_begin(creq[r].method, r)
                /\ creq' = [creq EXCEPT ![r].pc = "enqueue", ![r].failed = TRUE,
                                        ![r].inCatch = TRUE,
                                        ![r].enqIdx = Len(enq) + 1]
                /\ UNCHANGED <<maxQueueSize, items, nextItemId, fl, addedLog>>
           ELSE /\ creq' = [creq EXCEPT ![r].pc = "done", ![r].failed = TRUE,
                                        ![r].res = e]
                /\ UNCHANGED qvars
    /\ UNCHANGED <<hasQueue, hasOnlineCheck, hasClose, initialized,
                   initResult, initPromise, initGeneration, att, cl, icalls>>

\* request resumed after `await this.queue.enqueue(...)`: { queued: true }
request_afterEnqueue(r) ==
    /\ creq[r].pc = "enqueue"
    /\ enq[creq[r].enqIdx].pc = "done"
    /\ creq' = [creq EXCEPT ![r].pc = "done", ![r].res = Queued]
    /\ UNCHANGED <<hasQueue, hasOnlineCheck, hasClose, initialized,
                   initResult, initPromise, initGeneration, att, cl, icalls>>
    /\ UNCHANGED qvars

\* `await this.queue.enqueue(...)` rejected.  The enqueue of the offline
\* path (client.ts:83) sits in the try block: its error lands in the catch
\* block, which enqueues the call again (client.ts:90).  An error of the
\* catch block's own enqueue leaves request.
request_enqueueRejected(r) ==
    /\ creq[r].pc = "enqueue"
    /\ enq[creq[r].enqIdx].pc = "threw"
    /\ IF ~creq[r].inCatch
         THEN /\ enqueue_begin(creq[r].method, r)
              /\ creq' = [creq EXCEPT ![r].inCatch = TRUE,
                                      ![r].enqIdx = Len(enq) + 1]
              /\ UNCHANGED <<maxQueueSize, items, nextItemId, fl, addedLog>>
         ELSE /\ \E e \in Errors :
                   creq' = [creq EXCEPT ![r].pc = "done", ![r].res = e]
              /\ UNCHANGED qvars
    /\ UNCHANGED <<hasQueue, hasOnlineCheck, hasClose, initialized,
                   initResult, initPromise, initGeneration, att, cl, icalls>>

\* client.ts:35, `if (this.initialized) return this.initResult`
IsInitializedNever == FALSE
IsInitialized == initialized

\* client.ts:36, `if (this.initPromise) return this.initPromise`
HasInitPromise == initPromise # 0

\* client.ts:49, :56, :63: `initRunId === this.initGeneration`
IsCurrentRunAlways(runId) == TRUE
IsCurrentRun(runId) == runId = initGeneration

CloseActive == cl.pending > 0

\* history: the attempts whose promise has not settled and that no close()
\* call has met (none was in progress when the attempt began, none was
\* made since)
OpenAttempts == {a \in 1..Len(att) : att[a].pc # "settled" /\ ~att[a].closed}

\* history: one more initialize call, answered with a cached result
\* (joined = 0) or with the promise of attempt `joined`; window holds the
\* open attempts at the moment of the call, the one it starts included
Answered(c) == [n |-> icalls.n + 1, calls |-> icalls.calls \cup {c}]

\* McpClient.initialize, client.ts:34-68
initialize_call ==
    /\ icalls.n < MaxInitCalls
    /\ IF IsInitialized
         THEN /\ icalls' = Answered([joined |-> 0, val |-> initResult,
                                      window |-> OpenAttempts])
              /\ UNCHANGED <<initPromise, initGeneration, creq, att>>
         ELSE IF HasInitPromise
         THEN /\ icalls' = Answered([joined |-> initPromise,
                                      val |-> Undefined,
                                      window |-> OpenAttempts])
              /\ UNCHANGED <<initPromise, initGeneration, creq, att>>
         ELSE /\ Len(creq) < MaxClientRequests
              /\ initGeneration' = initGeneration + 1
              /\ creq' = Append(creq, NewRequest("initialize"))
              /\ att' = Append(att, [runId |-> initGeneration + 1,
                                     req |-> Len(creq) + 1, pc |-> "request",
                                     outcome |-> Undefined,
                                     closed |-> CloseActive])
              /\ initPromise' = Len(att) + 1
              /\ icalls' = Answered(
                    [joined |-> Len(att) + 1, val |-> Undefined,
                     window |-> OpenAttempts \cup
                        (IF CloseActive THEN {} ELSE {Len(att) + 1})])
    /\ UNCHANGED <<hasQueue, hasOnlineCheck, hasClose, initialized,
                   initResult, cl>>
    /\ UNCHANGED qvars

\* this.request('initialize', params) has settled: the .then handler
\* (client.ts:48-54) on a result, the .catch handler (client.ts:55-61) on
\* an error
attempt_thenCatch(a) ==
    /\ att[a].pc = "request"
    /\ creq[att[a].req].pc = "done"
    /\ LET v == creq[att[a].req].res IN
       /\ att' = [att EXCEPT ![a].pc = "finally", ![a].outcome = v]
       /\ IF IsCurrentRun(att[a].runId)
            THEN IF v \in Errors
                   THEN initialized' = FALSE /\ initResult' = Undefined
                   ELSE initialized' = TRUE /\ initResult' = v
            ELSE UNCHANGED <<initialized, initResult>>
    /\ UNCHANGED <<hasQueue, hasOnlineCheck, hasClose, initPromise,
                   initGeneration, creq, cl, icalls>>
    /\ UNCHANGED qvars

\* the .finally handler, client.ts:62-66; the promise the callers hold is
\* still pending when the handler returns
attempt_finally(a) ==
    /\ att[a].pc = "finally"
    /\ att' = [att EXCEPT ![a].pc = "settling"]
    /\ initPromise' = IF IsCurrentRun(att[a].runId) THEN 0 ELSE initPromise
    /\ UNCHANGED <<hasQueue, hasOnlineCheck, hasClose, initialized,
                   initResult, initGeneration, creq, cl, icalls>>
    /\ UNCHANGED qvars

\* the promise that .finally returned (client.ts:47-67) settles with the
\* attempt's outcome, in a later microtask than the handler: the callers
\* that hold it go on
attempt_settled(a) ==
    /\ att[a].pc = "settling"
    /\ att' = [att EXCEPT ![a].pc = "settled"]
    /\ UNCHANGED <<hasQueue, hasOnlineCheck, hasClose, initialized, initResult,
                   initPromise, initGeneration, creq, cl, icalls>>
    /\ UNCHANGED qvars

\* every attempt still in flight has met a close() call
MarkClosed(as) == [a \in 1..Len(as) |->
                     IF as[a].pc # "settled" THEN [as[a] EXCEPT !.closed = TRUE]
                                              ELSE as[a]]

\* McpClient.close up to `await transport.close()`; without a transport
\* close there is no await and the reset of client.ts:121-123 follows at once
close_call ==
    /\ cl.calls < MaxCloses
    /\ initGeneration' = initGeneration + 1
    /\ att' = MarkClosed(att)
    /\ IF hasClose
         THEN /\ cl' = [cl EXCEPT !.calls = @ + 1, !.pending = @ + 1]
              /\ UNCHANGED <<initialized, initResult, initPromise>>
         ELSE /\ cl' = [cl EXCEPT !.calls = @ + 1]
              /\ initialized' = FALSE
              /\ initResult' = Undefined
              /\ initPromise' = 0
    /\ UNCHANGED <<hasQueue, hasOnlineCheck, hasClose, creq, icalls>>
    /\ UNCHANGED qvars

\* transport.close() resolved: client.ts:121-123
close_afterTransportClose ==
    /\ cl.pending > 0
    /\ cl' = [cl EXCEPT !.pending = @ - 1]
    /\ initialized' = FALSE
    /\ initResult' = Undefined
    /\ initPromise' = 0
    /\ att' = MarkClosed(att)
    /\ UNCHANGED <<hasQueue, hasOnlineCheck, hasClose, initGeneration,
                   creq, icalls>>
    /\ UNCHANGED qvars

\* transport.close() rejected: the error leaves close, client.ts:121-123
\* do not run
close_transportCloseRejected ==
    /\ cl.pending > 0
    /\ cl' = [cl EXCEPT !.pending = @ - 1, !.failed = TRUE]
    /\ att' = MarkClosed(att)
    /\ UNCHANGED <<hasQueue, hasOnlineCheck, hasClose, initialized,
                   initResult, initPromise, initGeneration, creq, icalls>>
    /\ UNCHANGED qvars

\* ------------------------------------------------------ client properties

\* the McpClient.request call an initialize attempt made
InitRequest(a) == creq[att[a].req]

\* call c was answered with attempt a's promise, or with a's cached result
ServedBy(c, a) ==
    \/ c.joined = a
    \/ c.joined = 0 /\ att[a].pc # "request" /\ c.val = att[a].outcome

\* what an initialize call was answered with, once that is known
Got(c) == IF c.joined = 0 THEN c.val ELSE att[c.joined].outcome

\* the 'initialize' requests the transport has received and not yet answered
InitializeOutstanding ==
    {r \in 1..Len(creq) : creq[r].method = "initialize" /\ creq[r].pc = "transport"}

\* C1: for any number of initialize calls made before the first one
\* resolves, with no close() in between, the transport receives exactly
\* one 'initialize' request and every caller receives the same outcome.
C1_ConcurrentInitializeOneRequest ==
    /\ \A c \in icalls.calls : \A a \in c.window : ServedBy(c, a)
    /\ \A c1, c2 \in icalls.calls : \A a \in c1.window \cap c2.window :
         att[a].pc = "settled" => Got(c1) = Got(c2)
    /\ \A a \in 1..Len(att) :
         /\ InitRequest(a).tx <= 1
         /\ att[a].pc # "request" => InitRequest(a).tx = 1

\* C2: once close() was called while an initialize was in flight, the
\* steps of that initialize (its then, catch and finally handlers) change
\* neither initialized, nor initResult, nor initPromise.
C2_ClosedInitializeLeavesStateAlone ==
    [][\A a \in 1..Len(att) :
          (att[a].runId # initGeneration /\ att'[a].pc # att[a].pc) =>
             UNCHANGED <<initialized, initResult, initPromise>>]_vars

\* an initialize superseded by close() has resolved with a result while a
\* newer attempt is in flight: nothing is cached, the newer handle is kept
C2_Witness ==
    \E a, b \in 1..Len(att) :
        /\ a < b
        /\ att[a].closed /\ att[a].pc = "settled" /\ att[a].outcome \in Results
        /\ att[b].pc = "request" /\ initPromise = b
        /\ ~initialized /\ initResult = Undefined

\* C4: in every reachable state at most one 'initialize' call issued
\* through the client is outstanding at the transport.
C4_AtMostOneInitializeOutstanding == Cardinality(InitializeOutstanding) <= 1

\* C10: when the transport call of McpClient.request fails: with a queue
\* the error is swallowed, the call is enqueued with its method and
\* { queued: true } is returned; without a queue the error is raised and
\* nothing is stored.
C10_FailedRequestQueuedOrRaised ==
    \A r \in 1..Len(creq) : creq[r].failed =>
        IF hasQueue
          THEN /\ creq[r].pc \in {"enqueue", "done"}
               /\ creq[r].enqIdx \in 1..Len(enq)
               /\ enq[creq[r].enqIdx].owner = r
               /\ enq[creq[r].enqIdx].method = creq[r].method
               /\ creq[r].pc = "done" =>
                    /\ creq[r].res = Queued
                    /\ enq[creq[r].enqIdx].pc = "done"
                    /\ \E j \in 1..Len(addedLog) :
                         addedLog[j] = [id |-> enq[creq[r].enqIdx].item,
                                        method |-> creq[r].method]
          ELSE /\ creq[r].pc = "done"
               /\ creq[r].res \in Errors
               /\ items = <<>> /\ addedLog = <<>> /\ enq = <<>>

\* no network, maxQueueSize = 1: two sequential requests were both
\* answered { queued: true } and the storage holds the second call only
C10_Witness ==
    /\ hasQueue /\ maxQueueSize = 1 /\ ~overlapped
    /\ Len(creq) = 2
    /\ \A r \in 1..2 : creq[r].failed /\ creq[r].pc = "done" /\ creq[r].res = Queued
    /\ Len(items) = 1
    /\ items[1] = [id |-> enq[creq[2].enqIdx].item, method |-> creq[2].method]

\* C11: with an offline queue configured, McpClient.request makes no
\* transport call exactly when the connectivity check reported offline, and
\* then enqueues the call and returns { queued: true }; with no connectivity
\* check configured the transport is always called first.
C11_TransportSkippedExactlyWhenOffline ==
    \A r \in 1..Len(creq) : (hasQueue /\ creq[r].pc # "isOnline") =>
        /\ (creq[r].tx = 0) <=> (creq[r].online = "offline")
        /\ creq[r].online = "offline" =>
              /\ creq[r].pc \in {"enqueue", "done"}
              /\ enq[creq[r].enqIdx].owner = r
              /\ enq[creq[r].enqIdx].method = creq[r].method
              /\ creq[r].pc = "done" => creq[r].res = Queued
        /\ ~hasOnlineCheck => creq[r].tx = 1

\* C20: while the client is initialized, an initialize call returns the
\* cached result and sends no request; the cached result is the result of
\* an initialize attempt that succeeded.
C20_InitializedReturnsCachedResult ==
    /\ [](initialized =>
            \E a \in 1..Len(att) :
                /\ att[a].pc # "request"
                /\ att[a].outcome = initResult
                /\ initResult \notin Errors)
    /\ [][(initialized /\ icalls'.n = icalls.n + 1) =>
            /\ creq' = creq /\ att' = att
            /\ icalls'.calls = icalls.calls \cup
                  {[joined |-> 0, val |-> initResult, window |-> OpenAttempts]}]_vars

\* after a first initialize succeeded with a result of the transport, and
\* with no close() made, a second initialize call got that result back and
\* the client made one request only
C20_Witness ==
    /\ initialized /\ initResult \in Results
    /\ cl.calls = 0
    /\ Len(creq) = 1 /\ creq[1].method = "initialize" /\ creq[1].tx = 1
    /\ \E c \in icalls.calls : c.joined = 0 /\ c.val = initResult

\* a call of McpClient.close finishes in this step: the transport's close
\* settled, or the transport has none
ClientCloseFinishes ==
    \/ cl'.pending = cl.pending - 1
    \/ cl'.calls = cl.calls + 1 /\ cl'.pending = cl.pending

\* C21: when a call of McpClient.close() finishes, whether the transport's
\* close resolved or raised or is absent, the client is not initialized,
\* holds no cached result and no in-flight handle.
C21_CloseResetsClient ==
    [][ClientCloseFinishes =>
          (initialized' = FALSE /\ initResult' = Undefined /\ initPromise' = 0)]_vars

\* the steps of the enqueue and flush calls in progress: the storage
\* answers or fails, the observer returns or raises, the sender resolves or
\* rejects
QueueSteps ==
    \/ \E i \in 1..Len(enq) : enqueue_afterGetAll(i)
    \/ \E i \in 1..Len(enq) : enqueue_afterRemove(i)
    \/ \E i \in 1..Len(enq) : enqueue_return(i)
    \/ \E i \in 1..Len(enq) : enqueue_getAllThrows(i)
    \/ \E i \in 1..Len(enq) : enqueue_onEnqueueThrows(i)
    \/ \E p \in Passes : flush_afterGetAll(p)
    \/ \E p \in Passes : flush_senderOk(p)
    \/ \E p \in Passes : flush_senderFail(p)
    \/ \E p \in Passes : flush_afterRemove(p)

\* enqueue and flush called at any time, calls in progress included, and
\* the storage emptied at any time
QueueNext ==
    \/ /\ Len(enq) < MaxDirectEnqueues /\ OpsRunning < MaxOverlappingOps
       /\ enqueue_call
    \/ OpsRunning < MaxOverlappingOps /\ flushQueue_call
    \/ QueueSteps
    \/ storage_clear

\* enqueue and flush called one after the other, each call awaited before
\* the next is made, on a storage only the queue touches
QueueAloneNext ==
    \/ OpsRunning = 0 /\ enqueue_call
    \/ OpsRunning = 0 /\ flushQueue_call
    \/ QueueSteps

\* --------------------------------------------------- transport properties

\* C3: the response of an initialize call that has seen close() or a newer
\* initialize start since it began never writes the session id or the
\* protocol version of the transport.
C3_SupersededInitializeNeverCommits ==
    [][\A c \in 1..Len(tcalls) :
         (/\ tcalls[c].method = "initialize"
          /\ tcalls[c].superseded
          /\ tcalls[c].pc \in {"fetch", "body"}
          /\ tcalls'[c].pc # tcalls[c].pc)
         => UNCHANGED <<sessionId, protocolVersion>>]_vars

Status4xx(error) == error.kind = "http" /\ error.status \in 400..499
ServerOrNetwork(error) ==
    \/ error.kind = "network"
    \/ error.kind = "http" /\ error.status \in 500..599

\* C5: an attempt answered with a status in 400..499 is the last one of its
\* call: no wait, no further POST, and that error is what the caller gets,
\* for every retries and every answer of retryOn.
C5_ClientErrorNeverRetried ==
    \A c \in 1..Len(tcalls) : \A k \in 1..Len(tcalls[c].errs) :
        Status4xx(tcalls[c].errs[k])
        => /\ k = Len(tcalls[c].errs)
           /\ tcalls[c].pc = "done"
           /\ tcalls[c].outcome = tcalls[c].errs[k]
           /\ tcalls[c].posts = k
           /\ Len(tcalls[c].delays) = k - 1

\* a call hit a 4xx on its second attempt with retries left and a retryOn
\* predicate configured
C5_Witness ==
    \E c \in 1..Len(tcalls) :
        /\ retryPolicy.retryOn
        /\ tcalls[c].pc = "done"
        /\ Len(tcalls[c].errs) = 2
        /\ Status4xx(tcalls[c].errs[2])
        /\ tcalls[c].attempt < retryPolicy.retries

EveryAttemptRetryable(call) ==
    /\ ~call.denied
    /\ \A k \in 1..Len(call.errs) : ServerOrNetwork(call.errs[k])

PolicyDelay(k) ==
    Min(retryPolicy.baseDelayMs * Pow2(k), retryPolicy.maxDelayMs)

StrictlyIncreasingUntilCap(d) ==
    \A k \in 1..(Len(d) - 1) : d[k] < retryPolicy.maxDelayMs => d[k] < d[k + 1]

NonDecreasing(d) == \A k \in 1..(Len(d) - 1) : d[k] <= d[k + 1]

\* the POST count, the waits and the raised error of a call all of whose
\* attempts so far failed with a 5xx status or a network failure and were
\* allowed a retry
RetriesAsPolicy(call) ==
    /\ \A k \in 1..Len(call.delays) : call.delays[k] = PolicyDelay(k - 1)
    /\ Len(call.delays) <= retryPolicy.retries
    /\ call.posts <= retryPolicy.retries + 1
    /\ (call.pc = "done" /\ call.outcome.kind # "result")
       => /\ call.posts = retryPolicy.retries + 1
          /\ Len(call.delays) = retryPolicy.retries
          /\ call.outcome = call.errs[Len(call.errs)]

\* C6 as stated: when every attempt fails with a 5xx status or a network
\* failure and retryOn allows retrying, retries+1 POSTs are sent, the wait
\* before attempt k+1 is min(baseDelayMs * 2^k, maxDelayMs), the waits
\* strictly increase until they reach the cap, and the last attempt's error
\* is raised.
C6_DelaysStrictlyIncreaseUntilCap ==
    \A c \in 1..Len(tcalls) :
        EveryAttemptRetryable(tcalls[c])
        => /\ RetriesAsPolicy(tcalls[c])
           /\ StrictlyIncreasingUntilCap(tcalls[c].delays)

\* C6 amended: when every attempt fails with a 5xx status or a network
\* failure and retryOn allows retrying, retries+1 POSTs are sent, the wait
\* before attempt k+1 is min(baseDelayMs * 2^k, maxDelayMs), the waits never
\* decrease and, when baseDelayMs > 0, strictly increase until they reach
\* the cap, and the last attempt's error is raised (retries an integer >= 0,
\* baseDelayMs >= 0, maxDelayMs >= 0).
C6_DelaysFollowPolicy ==
    \A c \in 1..Len(tcalls) :
        EveryAttemptRetryable(tcalls[c])
        => /\ RetriesAsPolicy(tcalls[c])
           /\ NonDecreasing(tcalls[c].delays)
           /\ retryPolicy.baseDelayMs > 0
              => StrictlyIncreasingUntilCap(tcalls[c].delays)

\* a call used up two retries on 5xx and network failures, a retryOn
\* predicate allowing each, with a wait that grew and then hit the cap
C6_Witness ==
    \E c \in 1..Len(tcalls) :
        /\ retryPolicy.retryOn
        /\ EveryAttemptRetryable(tcalls[c])
        /\ tcalls[c].pc = "done"
        /\ tcalls[c].posts = 3
        /\ tcalls[c].outcome = HttpError(500)
        /\ tcalls[c].errs[1] = NetworkFailure
        /\ Len(tcalls[c].delays) = 2
        /\ tcalls[c].delays[1] < tcalls[c].delays[2]
        /\ tcalls[c].delays[2] = retryPolicy.maxDelayMs

\* an attempt of request call c begins in this step
AttemptBegins(c) ==
    /\ tcalls'[c].op = "request"
    /\ tcalls'[c].pc = "buildHeaders"
    /\ c > Len(tcalls) \/ tcalls[c].pc # "buildHeaders"

\* call c puts a POST on the wire in this step
Posts(c) == c <= Len(tcalls) /\ tcalls'[c].posts = tcalls[c].posts + 1

\* C12: every attempt of an 'initialize' request, the first and each retry,
\* begins by clearing the session id and the protocol version the transport
\* holds, its POST is sent after that, and the headers of the POST, as they
\* go on the wire, hold neither mcp-session-id nor mcp-protocol-version.
C12_InitializePostCarriesNoSession ==
    /\ [](\A c \in 1..Len(tcalls) :
            (tcalls[c].op = "request" /\ tcalls[c].method = "initialize")
            => /\ tcalls[c].hdr = NoSession
               /\ tcalls[c].posts > 0 =>
                    /\ "mcp-session-id" \notin DOMAIN tcalls[c].sent
                    /\ "mcp-protocol-version" \notin DOMAIN tcalls[c].sent)
    /\ [][\A c \in 1..Len(tcalls') :
            /\ (tcalls'[c].method = "initialize" /\ AttemptBegins(c))
               => (sessionId' = Undefined /\ protocolVersion' = Undefined)
            /\ (tcalls'[c].op = "request" /\ Posts(c))
               => (tcalls[c].pc = "buildHeaders"
                   /\ tcalls'[c].posts <= tcalls'[c].attempt + 1)]_vars

\* an initialize response carrying a session id was received
SessionEstablished ==
    \E c \in 1..Len(tcalls) : tcalls[c].got.sid \in SessionIds

\* C13: as long as no initialize response carrying a session id was
\* received, the headers of the POST of a request, stream or upload for a
\* method other than initialize, as they go on the wire, hold no
\* mcp-session-id (and the transport holds no session id).
C13_NoSessionNoSessionIdHeader ==
    ~SessionEstablished =>
        /\ sessionId = Undefined
        /\ \A c \in 1..Len(tcalls) :
              tcalls[c].method # "initialize" =>
                 /\ tcalls[c].hdr.sid = Undefined
                 /\ tcalls[c].posts > 0 =>
                      "mcp-session-id" \notin DOMAIN tcalls[c].sent

\* call c is an initialize that succeeded with a response carrying a
\* session id and a result carrying a protocol version
EstablishedBy(c) ==
    /\ tcalls[c].method = "initialize" /\ tcalls[c].outcome = Result
    /\ tcalls[c].got.sid \in SessionIds
    /\ tcalls[c].got.pv # Undefined

\* close() or another initialize was called after call c and before call d
\* (before anything later, for d = Len(tcalls) + 1)
EndedBetween(c, d) ==
    \/ \E e \in (c + 1)..(d - 1) : tcalls[e].method = "initialize"
    \/ \E k \in 1..Len(tcl) : tcl[k].seen \in c..(d - 1)

\* C14: after an initialize answered with mcp-session-id S and a result
\* with protocolVersion V the transport holds S and V, and every request
\* for another method that follows carries both, until close() or another
\* initialize; when the server answers every POST with 2xx and a result and
\* the DELETE with 200 or 204, no call of the sequence raises.
C14_EstablishedSessionIsCarried ==
    /\ \A c \in 1..Len(tcalls) : EstablishedBy(c) =>
          /\ ~EndedBetween(c, Len(tcalls) + 1)
             => (sessionId = tcalls[c].got.sid /\ protocolVersion = tcalls[c].got.pv)
          /\ \A d \in (c + 1)..Len(tcalls) :
                (tcalls[d].method # "initialize" /\ ~EndedBetween(c, d))
                => tcalls[d].hdr = tcalls[c].got
    /\ \A c \in 1..Len(tcalls) :
          tcalls[c].pc = "done" => tcalls[c].outcome = Result
    /\ \A k \in 1..Len(tcl) :
          (/\ tcl[k].pc = "done"
           /\ tcl[k].answer \in {NoOutcome, HttpError(200), HttpError(204)})
          => ~tcl[k].raised

\* initialize, tools/list, tools/call and close, one after the other: both
\* requests carried the session of the initialize, the DELETE carried it
\* too and was answered 204, nothing was raised
C14_Witness ==
    /\ Len(tcalls) = 3 /\ Len(tcl) = 1
    /\ EstablishedBy(1)
    /\ tcalls[2].method = "tools/list" /\ tcalls[3].method = "tools/call"
    /\ \A d \in 2..3 : tcalls[d].outcome = Result /\ tcalls[d].hdr = tcalls[1].got
    /\ tcl[1].seen = 3 /\ tcl[1].pc = "done" /\ ~tcl[1].raised
    /\ tcl[1].sid = tcalls[1].got.sid /\ tcl[1].answer = HttpError(204)

\* the last POST of call c is on the wire with the headers c.hdr
Sent(c) == tcalls[c].posts >= 1 /\ tcalls[c].pc \notin {"buildHeaders", "transferHeaders"}

\* C15: each request, stream or upload sent for a method other than
\* initialize carries both session headers or neither of them.
C15_BothSessionHeadersOrNeither ==
    \A c \in 1..Len(tcalls) :
        (tcalls[c].method # "initialize" /\ Sent(c))
        => ((tcalls[c].hdr.sid = Undefined) <=> (tcalls[c].hdr.pv = Undefined))

\* close call k finishes (resolves or raises) in this step
CloseFinishes(k) ==
    /\ tcl'[k].pc = "done"
    /\ k > Len(tcl) \/ tcl[k].pc # "done"

\* C16: when a call of HttpTransport.close() finishes, resolved or raised
\* and whatever the session state was at the call, the transport holds
\* neither a session id nor a protocol version.
C16_CloseLeavesNoSession ==
    [][\A k \in 1..Len(tcl') :
          CloseFinishes(k) => (sessionId' = Undefined /\ protocolVersion' = Undefined)]_vars

\* C17: HttpTransport.close() never raises, whatever became of the DELETE.
C17_CloseNeverRaises == \A k \in 1..Len(tcl) : ~tcl[k].raised

\* C18: close() with an active session sends exactly one DELETE, whose
\* mcp-session-id header on the wire is the session id held at the call, and
\* resolves when the DELETE is answered 200, 204 or 404; with no active
\* session it sends no request and is over at once.
C18_CloseSendsOneDelete ==
    /\ [](\A k \in 1..Len(tcl) :
            /\ tcl[k].deletes = IF tcl[k].hdr.sid = Undefined
                                     \/ tcl[k].pc = "beforeFetch"
                                  THEN 0 ELSE 1
            /\ tcl[k].deletes = 1 =>
                 tcl[k].sent["mcp-session-id"] = tcl[k].hdr.sid
            /\ tcl[k].hdr.sid = Undefined
                 => (tcl[k].pc = "done" /\ ~tcl[k].raised)
            /\ (tcl[k].pc = "done"
                 /\ tcl[k].answer \in {HttpError(200), HttpError(204), HttpError(404)})
               => ~tcl[k].raised)
    /\ [][Len(tcl') = Len(tcl) + 1 =>
            /\ tcl'[Len(tcl')].hdr.sid = sessionId
            /\ tcl'[Len(tcl')].deletes = IF sessionId = Undefined \/ HasAuthProvider
                                         THEN 0 ELSE 1]_vars

\* the calls that have drawn a JSON-RPC id (an upload draws none)
WithId == {c \in 1..Len(tcalls) : tcalls[c].id # 0}

\* call c draws its id in this step
DrawsId(c) == tcalls'[c].id # 0 /\ (c > Len(tcalls) \/ tcalls[c].id = 0)

\* C19: the ids a transport assigns are 1, 2, 3, ... in the order they are
\* assigned, one per request() call and one per started stream(), from one
\* counter and never reused; every attempt of a request() call is sent with
\* the id the call drew.
C19_RequestIdsCountUp ==
    /\ []({tcalls[c].id : c \in WithId} = 1..Cardinality(WithId))
    /\ [](\A c \in 1..Len(tcalls) :
            /\ tcalls[c].op = "request" => c \in WithId
            /\ (tcalls[c].op = "stream" /\ tcalls[c].posts > 0) => c \in WithId
            /\ tcalls[c].op = "upload" => c \notin WithId)
    /\ [][\A c \in 1..Len(tcalls') :
            /\ DrawsId(c) => tcalls'[c].id = Cardinality(WithId) + 1
            /\ (c \in WithId) => tcalls'[c].id = tcalls[c].id]_vars

\* a stream was started first and drew id 2 after a request, made later,
\* had drawn id 1; the request has sent two POSTs
C19_Witness ==
    /\ Len(tcalls) = 2
    /\ tcalls[1].op = "stream" /\ tcalls[1].id = 2 /\ tcalls[1].posts = 1
    /\ tcalls[2].op = "request" /\ tcalls[2].id = 1 /\ tcalls[2].posts = 2

\* ------------------------------------------------------ SSE frame parser
\* transport.ts:95-185.  A stream text is a sequence of tokens: the prefix
\* 'data:', a space, a carriage return, a line feed, the sentinel '[DONE]',
\* and four JSON documents (an object without a jsonrpc member, the value
\* null, a JSON-RPC envelope with a result, one with an error).  A chunk is
\* a run of tokens; the reader may cut the text between any two tokens.

DataPrefix == "data:"
Sp == "SP"
Cr == "CR"
Lf == "LF"
Done == "[DONE]"
RawPayload == "{a:1}"
NullPayload == "null"
ResultEnvelope == "{jsonrpc,result:r}"
ErrorEnvelope == "{jsonrpc,error:e}"
JsonDocs == {RawPayload, NullPayload, ResultEnvelope, ErrorEnvelope}
Whitespace == {Sp, Cr}

\* what a line of an event stream holds before its terminator
SseContents ==
    { <<>>,
      <<DataPrefix>>,
      <<DataPrefix, Sp, RawPayload>>,
      <<DataPrefix, ResultEnvelope, Sp>>,
      <<DataPrefix, NullPayload>>,
      <<DataPrefix, ErrorEnvelope>>,
      <<DataPrefix, Sp, Done>>,
      <<RawPayload>>,
      <<Sp, DataPrefix, RawPayload>>,
      <<Cr>> }
SseEndings == {<<>>, <<Lf>>, <<Cr, Lf>>}
SseSegments == {c \o e : c \in SseContents, e \in SseEndings}

RECURSIVE Flatten(_)
Flatten(segs) ==
    IF segs = <<>> THEN <<>> ELSE Head(segs) \o Flatten(Tail(segs))

\* the response bodies a server may send: up to MaxSseSegments segments
SseTexts ==
    {Flatten(segs) :
       segs \in UNION {[1..n -> SseSegments] : n \in 0..MaxSseSegments}}

\* String.prototype.split(/\r?\n/): the pieces between line terminators, the
\* last one being what follows the last terminator
RECURSIVE split(_)
split(s) ==
    IF \A i \in 1..Len(s) : s[i] # Lf THEN <<s>>
    ELSE LET i == CHOOSE k \in 1..Len(s) :
                     s[k] = Lf /\ \A j \in 1..(k - 1) : s[j] # Lf
             e == IF i > 1 /\ s[i - 1] = Cr THEN i - 2 ELSE i - 1
         IN  <<SubSeq(s, 1, e)>> \o split(SubSeq(s, i + 1, Len(s)))

\* lines.pop(): the array without its last element, and that element
Front(s) == SubSeq(s, 1, Len(s) - 1)
Last(s) == s[Len(s)]

\* String.prototype.trim
RECURSIVE trimStart(_)
trimStart(s) ==
    IF s # <<>> /\ Head(s) \in Whitespace THEN trimStart(Tail(s)) ELSE s
RECURSIVE trimEnd(_)
trimEnd(s) ==
    IF s # <<>> /\ Last(s) \in Whitespace THEN trimEnd(Front(s)) ELSE s
trim(s) == trimEnd(trimStart(s))

\* what a line does to the parser: nothing, a message, or an exception
Skip == [kind |-> "skip", v |-> ""]
Yield(v) == [kind |-> "yield", v |-> v]
Throw(e) == [kind |-> "throw", v |-> e]

\* JSON.parse on the trimmed payload: one JSON document, or a SyntaxError
JsonParse(data) ==
    IF Len(data) = 1 /\ data[1] \in JsonDocs
    THEN Yield(data[1]) ELSE Throw("SyntaxError")

\* parseJsonRpcResponse (transport.ts:95-103)
parseJsonRpcResponse(payload) ==
    IF payload = ErrorEnvelope THEN Throw("JsonRpcError") ELSE Yield("r")

\* `(payload).jsonrpc`: reading a member of null throws a TypeError
readJsonrpc(payload) ==
    IF payload = NullPayload THEN Throw("TypeError")
    ELSE IF payload \in {ResultEnvelope, ErrorEnvelope}
         THEN parseJsonRpcResponse(payload) ELSE Yield("a1")

\* the body of the loop over the lines (transport.ts:126-135, and the same
\* at 142-151 and 170-179)
decodeLine(line) ==
    IF line = <<>> \/ Head(line) # DataPrefix THEN Skip
    ELSE LET data == trim(Tail(line))
         IN  IF data = <<>> \/ data = <<Done>> THEN Skip
             ELSE IF JsonParse(data).kind = "throw" THEN JsonParse(data)
             ELSE readJsonrpc(JsonParse(data).v)

\* the lazy loop over the lines of a chunk (transport.ts:125-134), run
\* until the generator stops again: at the `yield` of the next message (the
\* lines after it are left for the consumer's next call), at the exception
\* that ends it, or at the end of the lines
RECURSIVE yieldNext(_, _)
yieldNext(lines, acc) ==
    IF lines = <<>>
      THEN [yielded |-> acc, error |-> "none", lines |-> <<>>, held |-> FALSE]
    ELSE LET d == decodeLine(Head(lines))
         IN  IF d.kind = "throw"
               THEN [yielded |-> acc, error |-> d.v, lines |-> <<>>,
                     held |-> FALSE]
             ELSE IF d.kind = "yield"
               THEN [yielded |-> Append(acc, d.v), error |-> "none",
                     lines |-> Tail(lines), held |-> TRUE]
             ELSE yieldNext(Tail(lines), acc)

\* the single-result loop over lines: it returns at the first message
RECURSIVE firstOfLines(_)
firstOfLines(lines) ==
    IF lines = <<>> THEN Skip
    ELSE IF decodeLine(Head(lines)).kind # "skip" THEN decodeLine(Head(lines))
    ELSE firstOfLines(Tail(lines))

\* decodeSseText (transport.ts:140-154)
decodeSseText(text) ==
    IF firstOfLines(split(text)).kind = "skip"
    THEN Throw("NoData") ELSE firstOfLines(split(text))

\* lines: the lines of the current chunk that parseSseStream has not decoded
\* yet; held: the generator is suspended at a `yield`, the consumer holds
\* the message
NoSse ==
    [op |-> "none", body |-> FALSE, text |-> <<>>, pos |-> 0,
     buffer |-> <<>>, lines |-> <<>>, held |-> FALSE, yielded |-> <<>>,
     status |-> "idle"]

SseRunning(op) == sse.op = op /\ sse.status = "running"

\* parseSseStream without a body or a TextDecoder (transport.ts:106-111)
parseSseStream_unsupported ==
    /\ SseRunning("parseSseStream") /\ ~sse.body /\ sse.pos = 0
    /\ sse' = [sse EXCEPT !.status = "StreamUnsupported"]

\* the generator waits in `await reader.read()` (transport.ts:118)
AwaitsRead == SseRunning("parseSseStream") /\ sse.body /\ ~sse.held

\* the generator resumed on the lines `lines`, up to where it stops next
parseSseStream_resume(lines) ==
    LET out == yieldNext(lines, sse.yielded)
    IN  [sse EXCEPT !.lines = out.lines, !.held = out.held,
                    !.yielded = out.yielded,
                    !.status = IF out.error = "none" THEN "running"
                               ELSE out.error]

\* one turn of the loop of parseSseStream (transport.ts:117-135): the reader
\* hands over the next chunk, of n tokens, and the lines it completes are
\* decoded up to the first message
parseSseStream_read(n) ==
    /\ AwaitsRead
    /\ sse.pos + n <= Len(sse.text)
    /\ LET chunk == SubSeq(sse.text, sse.pos + 1, sse.pos + n)
           lines == split(sse.buffer \o chunk)
       IN  sse' = [parseSseStream_resume(Front(lines)) EXCEPT
                     !.pos = sse.pos + n, !.buffer = Last(lines)]

\* the consumer asks for the next message: the generator goes on after its
\* `yield` (transport.ts:131-133) with the lines left of the chunk
parseSseStream_next ==
    /\ SseRunning("parseSseStream") /\ sse.held
    /\ sse' = parseSseStream_resume(sse.lines)

\* the consumer stops (break, return()) while it holds a message: the
\* generator ends at its `yield` and the lines left are never decoded
parseSseStream_return ==
    /\ SseRunning("parseSseStream") /\ sse.held
    /\ sse' = [sse EXCEPT !.status = "stopped", !.held = FALSE]

\* reader.read() reports the end of the stream (transport.ts:119)
parseSseStream_done ==
    /\ AwaitsRead
    /\ sse.pos = Len(sse.text)
    /\ sse' = [sse EXCEPT !.status = "done"]

\* the caller's signal aborts the read: reader.read() rejects
parseSseStream_aborted ==
    /\ AwaitsRead
    /\ sse' = [sse EXCEPT !.status = "AbortError"]

\* parseSseResponse without a body or a TextDecoder (transport.ts:156-159)
parseSseResponse_text ==
    /\ SseRunning("parseSseResponse") /\ ~sse.body /\ sse.pos = 0
    /\ LET d == decodeSseText(sse.text)
       IN  sse' = [sse EXCEPT
                     !.pos = Len(sse.text),
                     !.yielded = IF d.kind = "yield" THEN <<d.v>> ELSE <<>>,
                     !.status = IF d.kind = "yield" THEN "returned" ELSE d.v]

\* one turn of the loop of parseSseResponse (transport.ts:165-180)
parseSseResponse_read(n) ==
    /\ SseRunning("parseSseResponse") /\ sse.body
    /\ sse.pos + n <= Len(sse.text)
    /\ LET chunk == SubSeq(sse.text, sse.pos + 1, sse.pos + n)
           lines == split(sse.buffer \o chunk)
           d == firstOfLines(Front(lines))
       IN  sse' = [sse EXCEPT
                     !.pos = sse.pos + n,
                     !.buffer = Last(lines),
                     !.yielded = IF d.kind = "yield" THEN <<d.v>> ELSE <<>>,
                     !.status = IF d.kind = "yield" THEN "returned"
                                ELSE IF d.kind = "throw" THEN d.v
                                ELSE "running"]

\* the stream ended before a message was found (transport.ts:167, 184)
parseSseResponse_done ==
    /\ SseRunning("parseSseResponse") /\ sse.body
    /\ sse.pos = Len(sse.text)
    /\ sse' = [sse EXCEPT !.status = "NoData"]

\* ---- the SSE frame parser against the text it was given

Max0(S) == IF S = {} THEN 0 ELSE CHOOSE m \in S : \A x \in S : x <= m
LfAt(text) == {i \in 1..Len(text) : text[i] = Lf}
\* the line that the line feed at position i terminates
LineBefore(text, i) ==
    LET from == 1 + Max0({j \in LfAt(text) : j < i})
        to == IF i > from /\ text[i - 1] = Cr THEN i - 2 ELSE i - 1
    IN  SubSeq(text, from, to)
\* the newline-terminated lines of a text, in order
TerminatedLines(text) ==
    [k \in 1..Cardinality(LfAt(text)) |->
       LineBefore(text, CHOOSE i \in LfAt(text) :
                          Cardinality({j \in LfAt(text) : j <= i}) = k)]
\* what follows the last line terminator
TrailingLine(text) == SubSeq(text, 1 + Max0(LfAt(text)), Len(text))
NotBlank(t) == t \notin Whitespace
Payload(line) == SelectSeq(Tail(line), NotBlank)
IsMessageLine(line) ==
    /\ line # <<>> /\ Head(line) = DataPrefix
    /\ Payload(line) \notin {<<>>, <<Done>>}
\* the decoded payload of a message line: the result of an envelope, the raw
\* payload otherwise; an error envelope and an undecodable payload raise
Decoded(line) ==
    LET p == Payload(line)
    IN  IF Len(p) # 1 \/ p[1] \notin JsonDocs THEN Throw("SyntaxError")
        ELSE IF p[1] = ErrorEnvelope THEN Throw("JsonRpcError")
        ELSE IF p[1] = ResultEnvelope THEN Yield("r")
        ELSE IF p[1] = NullPayload THEN Yield("null")
        ELSE Yield("a1")
\* the messages of a sequence of lines, up to the first one that raises
Messages(lines) ==
    LET bad == {k \in 1..Len(lines) :
                  IsMessageLine(lines[k]) /\ Decoded(lines[k]).kind = "throw"}
        stop == IF bad = {} THEN Len(lines) + 1
                ELSE CHOOSE k \in bad : \A x \in bad : k <= x
        msgs == SelectSeq(SubSeq(lines, 1, stop - 1), IsMessageLine)
    IN  [yielded |-> [k \in 1..Len(msgs) |-> Decoded(msgs[k]).v],
         error |-> IF bad = {} THEN "none" ELSE Decoded(lines[stop]).v]

\* C22: in single-result mode the parser returns the decoded payload of the
\* first line of the text that starts with 'data:' and has a payload other
\* than nothing and '[DONE]', and raises the no-data error when the text has
\* no such line.
C22_SingleResultIsFirstMessage ==
    (sse.op = "parseSseResponse" /\ sse.status # "running") =>
       LET m == Messages(Append(TerminatedLines(sse.text),
                                TrailingLine(sse.text)))
       IN  IF m.yielded # <<>>
           THEN sse.status = "returned" /\ sse.yielded = <<m.yielded[1]>>
           ELSE /\ sse.yielded = <<>>
                /\ sse.status = IF m.error = "none" THEN "NoData" ELSE m.error

\* s is a prefix of t
IsPrefix(s, t) == Len(s) <= Len(t) /\ s = SubSeq(t, 1, Len(s))

\* C23: however the text is cut into chunks, the lazy sequence yields, in
\* order, the decoded payloads of the newline-terminated message lines: a
\* prefix of them while the consumer holds a message or after it stopped,
\* and exactly those of the lines read so far whenever the parser waits for
\* the next chunk or has ended; a trailing line without terminator is never
\* parsed, also not at the end of the stream or when the read is aborted.
C23_LazySequenceIsChunkInvariant ==
    (sse.op = "parseSseStream" /\ sse.body) =>
       LET m == Messages(TerminatedLines(SubSeq(sse.text, 1, sse.pos)))
       IN  IF sse.held \/ sse.status = "stopped"
           THEN IsPrefix(sse.yielded, m.yielded)
           ELSE /\ sse.yielded = m.yielded
                /\ IF m.error = "none"
                   THEN sse.status \in {"running", "done", "AbortError"}
                   ELSE sse.status = m.error

\* ---- stream and upload

Transfers == {c \in 1..Len(tcalls) : tcalls[c].op \in {"stream", "upload"}}

\* C24: a stream or upload call sends at most one POST; when that POST fails
\* (network failure or non-2xx status) the call ends at once with that error,
\* without delay and without a second POST, whatever the retry policy.
C24_TransfersNeverRetry ==
    \A c \in Transfers :
       /\ tcalls[c].posts <= 1
       /\ tcalls[c].delays = <<>>
       /\ tcalls[c].errs # <<>> =>
            /\ tcalls[c].pc = "done"
            /\ tcalls[c].errs = <<tcalls[c].outcome>>

C24_Witness ==
    /\ retryPolicy.retries >= 1 /\ retryPolicy.retryOn
    /\ \E c, d \in Transfers :
         /\ tcalls[c].op = "stream" /\ tcalls[c].pc = "done"
         /\ tcalls[c].outcome = HttpError(500) /\ tcalls[c].posts = 1
         /\ tcalls[d].op = "upload" /\ tcalls[d].pc = "done"
         /\ tcalls[d].outcome = NetworkFailure /\ tcalls[d].posts = 1

\* C25: upload accepts a file only when exactly one of data and uri is
\* present: with neither and with both it raises the missing-file-data error
\* and sends no POST.
C25_UploadNeedsExactlyOneSource ==
    \A c \in Transfers :
       (tcalls[c].op = "upload" /\ tcalls[c].file \in {"neither", "both"}
          /\ tcalls[c].pc \notin {"transferHeaders"}) =>
            /\ tcalls[c].posts = 0
            /\ tcalls[c].outcome = MissingFileData

\* ---- headers sent and logged

\* a header map with the value of one of its entries replaced
WithValue(hs, name, value) == [hs EXCEPT ![name] = value]
IsSensitive(name) == toLowerCase(name) \in sensitive
\* what request, stream and upload hand to the logger, given the transport's
\* configuration and the session headers the call captured
LoggedBy(op, base, auth, hdr) ==
    redactHeaders(CASE op = "request" -> requestHeaders(base, auth, hdr)
                    [] op = "stream" -> streamHeaders(base, auth, hdr)
                    [] op = "upload" -> uploadHeaders(base, auth, hdr))
\* the latest attempt of call c has got as far as the log of its start: its
\* headers are built, and they were not refused by the auth provider
HasLogged(c) ==
    /\ tcalls[c].pc \notin {"buildHeaders", "transferHeaders"}
    /\ ~ /\ tcalls[c].pc \in {"delay", "done"}
         /\ tcalls[c].outcome # Result
         /\ tcalls[c].errs # <<>>
         /\ tcalls[c].errs[Len(tcalls[c].errs)] \in AuthErrors

\* C26: the header map that request, stream and upload pass to the logger is
\* the same in every run that differs only in the value of a base or
\* auth-provider header named authorization, cookie, set-cookie or x-api-key
\* in any letter case.
C26_SensitiveValuesNeverLogged ==
    \A c \in 1..Len(tcalls) : HasLogged(c) =>
       /\ \A name \in DOMAIN headers, value \in HeaderValues \cup {"v3"} :
            IsSensitive(name) =>
               tcalls[c].logged =
                  LoggedBy(tcalls[c].op, WithValue(headers, name, value),
                           tcalls[c].auth, tcalls[c].hdr)
       /\ \A name \in DOMAIN tcalls[c].auth, value \in HeaderValues \cup {"v3"} :
            IsSensitive(name) =>
               tcalls[c].logged =
                  LoggedBy(tcalls[c].op, headers,
                           WithValue(tcalls[c].auth, name, value), tcalls[c].hdr)

C26_Witness ==
    /\ "cookie" \in DOMAIN headers
    /\ \E c \in 1..Len(tcalls) :
         /\ tcalls[c].op = "stream" /\ HasLogged(c)
         /\ tcalls[c].hdr.sid # Undefined
         /\ "Authorization" \in DOMAIN tcalls[c].auth
         /\ tcalls[c].sent["Authorization"] = tcalls[c].auth["Authorization"]
         /\ tcalls[c].logged["Authorization"] = "[redacted]"
         /\ tcalls[c].logged["cookie"] = "[redacted]"
         /\ tcalls[c].logged["mcp-session-id"] = tcalls[c].hdr.sid

\* the headers that belong to the call itself
CallSpecific(op, hdr) ==
    sessionExtra(hdr) @@
      (CASE op = "request" -> "Accept" :> "application/json, text/event-stream"
         [] op = "stream" -> "Accept" :> "text/event-stream"
         [] OTHER -> NoHeaders)

\* C27: in every HTTP call the transport sends, the POST of request, stream
\* and upload and the DELETE of close, a call-specific header (the session
\* id, the protocol version, Accept) has the call's value, whatever the base
\* headers and the auth provider's headers hold under the same name.
C27_CallSpecificHeadersWin ==
    /\ \A c \in 1..Len(tcalls) : tcalls[c].posts > 0 =>
         \A name \in DOMAIN CallSpecific(tcalls[c].op, tcalls[c].hdr) :
            tcalls[c].sent[name] = CallSpecific(tcalls[c].op, tcalls[c].hdr)[name]
    /\ \A k \in 1..Len(tcl) : tcl[k].deletes > 0 =>
         /\ tcl[k].sent["mcp-session-id"] = tcl[k].hdr.sid
         /\ tcl[k].hdr.pv # Undefined =>
              tcl[k].sent["mcp-protocol-version"] = tcl[k].hdr.pv

\* ---- the signal of each attempt, and the end of the attempt loop

Requests == {c \in 1..Len(tcalls) : tcalls[c].op = "request"}

\* C28: request creates an AbortController only when the caller gave a
\* timeout and no signal; then every attempt has a controller of its own for
\* its fetch, and a timer aborts only the fetch of the attempt that armed
\* it; when the caller gave a signal, every fetch gets that signal and no
\* timer is armed.
C28_FreshTimeoutSignalPerAttempt ==
    \A c \in Requests :
       /\ tcalls[c].controllers > 0 =>
            tcalls[c].options.timeoutMs # 0 /\ ~tcalls[c].options.signal
       /\ (derivesSignal(tcalls[c].options) /\ tcalls[c].posts > 0) =>
            /\ tcalls[c].controllers = tcalls[c].posts
            /\ tcalls[c].signal = tcalls[c].posts
       /\ (tcalls[c].options.signal /\ tcalls[c].posts > 0) =>
            tcalls[c].signal = CallerSignal /\ tcalls[c].timers = {}
       /\ \A i \in 1..Len(tcalls[c].abortedBy) :
            tcalls[c].abortedBy[i].controller = tcalls[c].abortedBy[i].attempt + 1

\* the first attempt was aborted by its timer; the second is in flight with
\* its own signal while nothing is left of the first timer
C28_Witness ==
    \E c \in Requests :
       /\ tcalls[c].options = [timeoutMs |-> 1, signal |-> FALSE]
       /\ tcalls[c].abortedBy = <<[attempt |-> 0, controller |-> 1]>>
       /\ tcalls[c].pc = "fetch" /\ tcalls[c].posts = 2
       /\ tcalls[c].signal = 2 /\ tcalls[c].timers = {2}

\* C29: with retries >= 0 a request call never ends with the 'failed after
\* retries' error that follows the loop: it ends with a result or with the
\* error of its last attempt, after at most retries + 1 attempts.
C29_LoopNeverFallsThrough ==
    \A c \in Requests :
       /\ tcalls[c].outcome # RetriesExhausted
       /\ tcalls[c].posts <= retryPolicy.retries + 1
       /\ tcalls[c].attempt <= retryPolicy.retries
       /\ tcalls[c].pc = "done" =>
            \/ tcalls[c].outcome = Result
            \/ /\ tcalls[c].errs # <<>>
               /\ tcalls[c].outcome = tcalls[c].errs[Len(tcalls[c].errs)]

\* every attempt the policy allows was made and failed with a retryable
\* error: the call raised the error of the last attempt
C29_Witness ==
    \E c \in Requests :
       /\ retryPolicy.retries >= 1
       /\ tcalls[c].pc = "done" /\ tcalls[c].posts = retryPolicy.retries + 1
       /\ Len(tcalls[c].errs) = retryPolicy.retries + 1
       /\ tcalls[c].outcome = HttpError(500)

\* ---- the replay of the queue

\* C30: a flush pass replays the items in stored order, one at a time: a
\* replay is started only after every earlier replay of the pass has
\* succeeded and its item has been removed from storage, so at most one
\* replay is in flight.
C30_ReplaysAreSequentialFifo ==
    \A p \in Passes : LET f == PassAt(p) IN
        /\ f.sendLog = Ids(SubSeq(f.snap, 1, Len(f.sendLog)))
        /\ \A j \in 1..(Len(f.sendLog) - 1) :
             \A i \in 1..Len(items) : items[i].id # f.snap[j].id
        /\ f.inFlight <= 1
        /\ f.inFlight = 1 <=> f.pc = "sender"
        /\ \A i, j \in 1..Len(f.snap) :
             i < j => \E a, b \in 1..Len(addedLog) :
                        /\ a < b
                        /\ addedLog[a].id = f.snap[i].id
                        /\ addedLog[b].id = f.snap[j].id

\* two passes that overlap, each over the same two stored items: both have
\* replayed the first item, which is gone from storage, and each has the
\* replay of the second item in flight, one replay per pass
C30_Witness ==
    /\ Len(fl.snap) = 2 /\ fl.pc = "sender"
    /\ fl.sendLog = <<fl.snap[1].id, fl.snap[2].id>>
    /\ Ids(items) = <<fl.snap[2].id>>
    /\ fl.inFlight = 1
    /\ Len(fl.earlier) = 1
    /\ fl.earlier[1].pc = "sender" /\ fl.earlier[1].inFlight = 1
    /\ fl.earlier[1].sendLog = fl.sendLog

\* C31: in both output modes, a response without a body stream (or a
\* runtime without a TextDecoder) makes the parser fail with the
\* stream-unsupported error, and no message is decoded.
C31_NoBodyIsStreamUnsupported ==
    (sse.op \in {"parseSseStream", "parseSseResponse"} /\ ~sse.body
       /\ sse.status # "running") =>
          sse.status = "StreamUnsupported" /\ sse.yielded = <<>>

\* C32: the client is marked initialized, and caches a result, only when
\* the transport's 'initialize' request succeeded: an initialize that was
\* answered with the { queued: true } acknowledgment of the offline queue
\* leaves the client not initialized with nothing cached.
C32_InitializedOnlyByTransportSuccess ==
    /\ initialized => initResult \in Results
    /\ \A a \in 1..Len(att) :
         (att[a].pc # "request" /\ att[a].outcome = Queued) =>
             ~(initialized /\ initResult = Queued)

\* C33: when an 'initialize' call of HttpTransport.request ended by raising
\* (and no other call was made since), the transport holds neither a
\* session id nor a protocol version.
C33_FailedInitializeLeavesNoSession ==
    (/\ Len(tcalls) >= 1
     /\ tcalls[Len(tcalls)].method = "initialize"
     /\ tcalls[Len(tcalls)].pc = "done"
     /\ tcalls[Len(tcalls)].outcome # Result) =>
        sessionId = Undefined /\ protocolVersion = Undefined

\* the enqueue calls of McpClient.request number r that stored an item
StoredBy(r) == {i \in 1..Len(enq) : enq[i].owner = r /\ enq[i].item # 0}

\* C34: each call of McpClient.request adds at most one item to the
\* offline queue, on every path: offline, transport failure, and when the
\* connectivity check, the storage or the onEnqueue observer raises.
C34_RequestAddsAtMostOneItem ==
    \A r \in 1..Len(creq) : Cardinality(StoredBy(r)) <= 1

\* C35: once the caller's signal has aborted an in-flight attempt of
\* request, the call has raised the abort to its caller: no backoff delay
\* is waited and no further attempt is made.
C35_CallerAbortEndsTheCall ==
    \A c \in Requests : CallerAborted(tcalls[c]) =>
        /\ tcalls[c].pc = "done"
        /\ tcalls[c].outcome = AbortError
        /\ tcalls[c].attempt = tcalls[c].abortedBy[1].attempt
        /\ Len(tcalls[c].delays) = tcalls[c].abortedBy[1].attempt

\* no initialize call overlapped close call k or was started after it
NoInitializeSince(k) ==
    \A i \in 1..Len(tcalls) : tcalls[i].method = "initialize" =>
        i <= tcl[k].seen /\ ~tcalls[i].superseded

\* C36: from the moment close() is called on a transport that holds the
\* session id S, no request, stream or upload started afterwards carries
\* S, calls started while the DELETE is outstanding included (as long as no
\* initialize runs again).
C36_NoCallCarriesClosedSession ==
    \A k \in 1..Len(tcl) :
       (tcl[k].hdr.sid # Undefined /\ NoInitializeSince(k)) =>
           \A c \in (tcl[k].seen + 1)..Len(tcalls) :
               Sent(c) => tcalls[c].hdr.sid # tcl[k].hdr.sid

\* the Error that parseJsonRpcResponse throws for an error envelope
\* (transport.ts:96-101): message, code and data, and no status
JsonRpcError == [kind |-> "jsonrpc", status |-> 0]

\* a 2xx reply whose body is a JSON-RPC error envelope, decoded as the code
\* decodes it: `parseJsonRpcResponse(await response.json())` for a JSON
\* body (transport.ts:328-329, 353-354), parseSseResponse for an event
\* stream whose first data line holds the envelope (transport.ts:313, 344)
decodeErrorReply(contentType) ==
    IF contentType = "text/event-stream"
      THEN decodeSseText(<<DataPrefix, Sp, ErrorEnvelope, Lf, Lf>>)
      ELSE parseJsonRpcResponse(ErrorEnvelope)

\* the error value an exception of the decoders stands for
Thrown(d) == IF d.v = "JsonRpcError" THEN JsonRpcError ELSE BodyError

\* fetch answered 2xx with a JSON-RPC error envelope: the decoder throws and
\* the catch block takes the error, transport.ts:362-375
transport_request_errorEnvelope(c) ==
    /\ \/ tcalls[c].pc = "body"
       \/ tcalls[c].pc = "fetch" /\ tcalls[c].method # "initialize"
    /\ \E contentType \in {"application/json", "text/event-stream"} :
         LET d == decodeErrorReply(contentType) IN
         /\ d.kind = "throw"
         /\ \E answer \in RetryOnAnswers(Thrown(d)) :
              tcalls' = [tcalls EXCEPT ![c] = caught(tcalls[c], Thrown(d), answer)]
    /\ UNCHANGED <<retryPolicy, requestId, sessionId, protocolVersion, tcl>>

\* C37: a JSON-RPC error envelope received with a 2xx status is handled by
\* request like a failure without a 4xx status: while retryOn allows it
\* and attempts remain the request is sent again after the backoff delay,
\* and otherwise the envelope's error is raised to the caller.
C37_ErrorEnvelopeIsRetried ==
    \A c \in Requests : \A k \in 1..Len(tcalls[c].errs) :
        tcalls[c].errs[k] = JsonRpcError =>
           IF k <= retryPolicy.retries /\ ~(tcalls[c].denied /\ k = Len(tcalls[c].errs))
             THEN /\ Len(tcalls[c].delays) >= k
                  /\ tcalls[c].delays[k] = PolicyDelay(k - 1)
                  /\ tcalls[c].attempt = k - 1 =>
                        tcalls[c].pc = "delay" /\ tcalls[c].posts = k
                  /\ tcalls[c].attempt >= k => tcalls[c].posts >= k
                  /\ k = Len(tcalls[c].errs) => tcalls[c].outcome \in {NoOutcome, Result}
             ELSE /\ k = Len(tcalls[c].errs)
                  /\ tcalls[c].pc = "done"
                  /\ tcalls[c].outcome = JsonRpcError
                  /\ tcalls[c].posts = k
                  /\ Len(tcalls[c].delays) = k - 1

\* with two retries and a retryOn predicate that allowed each, a call got
\* the error envelope three times, waited twice and raised the envelope's
\* error
C37_Witness ==
    \E c \in Requests :
        /\ retryPolicy.retries = 2 /\ retryPolicy.retryOn
        /\ tcalls[c].errs = <<JsonRpcError, JsonRpcError, JsonRpcError>>
        /\ ~tcalls[c].denied
        /\ tcalls[c].pc = "done" /\ tcalls[c].outcome = JsonRpcError
        /\ tcalls[c].posts = 3
        /\ tcalls[c].delays = <<PolicyDelay(0), PolicyDelay(1)>>

\* attempt a has settled with a failure
FailedAttempt(a) == att[a].pc = "settled" /\ att[a].outcome \in Errors

\* C38: without an offline queue a failed initialize is not memoized: every
\* caller that shared the attempt gets the failure, and once the attempt
\* has settled the client does not hold its handle and was not marked
\* initialized by it, so that the next initialize call finds neither a
\* cached result nor a handle and sends a new 'initialize' request
\* (client.ts:35-47).
C38_FailedInitializeNotMemoized ==
    ~hasQueue => \A a \in 1..Len(att) : FailedAttempt(a) =>
        /\ initPromise # a
        /\ initResult # att[a].outcome
        /\ \A c \in icalls.calls : c.joined = a => Got(c) = att[a].outcome

\* C39: flushQueue never adds an item: no step of a flush pass enqueues or
\* stores anything, a failed replay ends the pass with the error and leaves
\* the storage as it was; with no enqueue overlapping the pass the
\* number of stored items never exceeds the number the pass began with,
\* and the pass sends each item at most once.
C39_FlushNeverAddsItems ==
    /\ [][fl' # fl =>
            /\ addedLog' = addedLog /\ enq' = enq /\ nextItemId' = nextItemId
            /\ Len(items') <= Len(items)]_vars
    /\ []((~overlapped /\ FlushActive) => Len(items) <= Len(fl.snap))
    /\ [](\A p \in Passes : \A i, j \in 1..Len(PassAt(p).sendLog) :
            i # j => PassAt(p).sendLog[i] # PassAt(p).sendLog[j])
    /\ [][((fl.pc = "sender" /\ fl'.pc = "failed")
              \/ Len(fl'.earlier) < Len(fl.earlier))
            => items' = items]_vars

\* a pass over two stored items failed on the first replay: both items are
\* still stored, in order, and nothing was enqueued by the pass
C39_Witness ==
    /\ ~overlapped
    /\ fl.pc = "failed" /\ fl.k = 1
    /\ Len(fl.snap) = 2
    /\ items = fl.snap
    /\ addedLog = fl.snap
    /\ Len(enq) = 2

\* the position of item id in the order the items were stored
StoredAt(id) == CHOOSE j \in 1..Len(addedLog) : addedLog[j].id = id

\* an enqueue call evicted item id
Evicted(id) == \E i \in 1..Len(enq) : enq[i].evicted = id

\* the storage is empty and every item ever stored was evicted by an
\* enqueue or replayed with success
Drained ==
    /\ items = <<>>
    /\ \A j \in 1..Len(addedLog) :
         \/ Evicted(addedLog[j].id)
         \/ \E a \in 1..Len(fl.okLog) : fl.okLog[a] = addedLog[j].id

\* C40: when nothing is enqueued after the first flushQueue call,
\* flushQueue is called again and again and the transport eventually
\* accepts every replay, the queue ends up empty, every item that was
\* queued has been replayed with success, and the successful replays
\* happened in the order the items were stored.
C40_RepeatedFlushDrainsQueue ==
    /\ (~NoFlushYet) ~> Drained
    /\ [](\A a, b \in 1..Len(fl.okLog) :
            a < b => StoredAt(fl.okLog[a]) < StoredAt(fl.okLog[b]))

\* three stored items were all replayed with success, in order, and the
\* pass that emptied the queue found a single item: an earlier pass had
\* failed and was repeated
C40_Witness ==
    /\ Drained
    /\ Len(addedLog) = 3
    /\ fl.okLog = Ids(addedLog)
    /\ fl.pc = "done" /\ Len(fl.snap) = 1

\* transport.ts:38-43, `retryOn: () => true`
defaultRetryPolicy ==
    [retries |-> defaultRetries, baseDelayMs |-> defaultBaseDelayMs,
     maxDelayMs |-> defaultMaxDelayMs, retryOn |-> TRUE]

NoFlush ==
    [pc |-> "idle", snap |-> <<>>, k |-> 0, sendLog |-> <<>>, inFlight |-> 0,
     okLog |-> <<>>, earlier |-> <<>>]
NoCloses == [calls |-> 0, pending |-> 0, failed |-> FALSE]
NoInitCalls == [n |-> 0, calls |-> {}]

\* the maxQueueSize of a queue whose calls overlap: absent, or 1
QueueSizes == {0, 1}

\* a new OfflineQueue over an empty InMemoryQueueStorage, and a new McpClient
\* that is left alone
QueueInit ==
    /\ maxQueueSize \in QueueSizes
    /\ items = <<>> /\ nextItemId = 1 /\ enq = <<>> /\ fl = NoFlush
    /\ addedLog = <<>> /\ overlapped = FALSE
    /\ hasQueue = TRUE /\ hasOnlineCheck = FALSE /\ hasClose = FALSE
    /\ initialized = FALSE /\ initResult = Undefined /\ initPromise = 0
    /\ initGeneration = 0
    /\ creq = <<>> /\ att = <<>> /\ cl = NoCloses /\ icalls = NoInitCalls
    /\ retryPolicy = defaultRetryPolicy /\ requestId = 1
    /\ sessionId = Undefined /\ protocolVersion = Undefined
    /\ tcalls = <<>> /\ tcl = <<>>
    /\ sse = NoSse
    /\ headers = NoHeaders
    /\ authProvider = NoProvider /\ authHeaders = NoHeaders

\* the OfflineQueue on its own: enqueue and flush called directly
SpecQueue == QueueInit /\ [][QueueNext /\ UNCHANGED <<cvars, tvars, svars, hvars>>]_vars

\* a new OfflineQueue, unbounded or bounded to any size within the bounds
QueueAloneInit ==
    /\ maxQueueSize \in 0..MaxQueueSizeCfg
    /\ items = <<>> /\ nextItemId = 1 /\ enq = <<>> /\ fl = NoFlush
    /\ addedLog = <<>> /\ overlapped = FALSE
    /\ hasQueue = TRUE /\ hasOnlineCheck = FALSE /\ hasClose = FALSE
    /\ initialized = FALSE /\ initResult = Undefined /\ initPromise = 0
    /\ initGeneration = 0
    /\ creq = <<>> /\ att = <<>> /\ cl = NoCloses /\ icalls = NoInitCalls
    /\ retryPolicy = defaultRetryPolicy /\ requestId = 1
    /\ sessionId = Undefined /\ protocolVersion = Undefined
    /\ tcalls = <<>> /\ tcl = <<>>
    /\ sse = NoSse
    /\ headers = NoHeaders
    /\ authProvider = NoProvider /\ authHeaders = NoHeaders

\* the OfflineQueue used one call at a time
SpecQueueAlone ==
    QueueAloneInit
      /\ [][QueueAloneNext /\ UNCHANGED <<cvars, tvars, svars, hvars>>]_vars

\* a new McpClient (client.ts:23-32): with or without an offline queue
\* (unbounded, over an empty storage), over a transport with or without close
ClientInit ==
    /\ hasQueue \in BOOLEAN
    /\ hasOnlineCheck \in (IF hasQueue THEN BOOLEAN ELSE {FALSE})
    /\ hasClose \in BOOLEAN
    /\ maxQueueSize = 0
    /\ items = <<>> /\ nextItemId = 1 /\ enq = <<>> /\ fl = NoFlush
    /\ addedLog = <<>> /\ overlapped = FALSE
    /\ initialized = FALSE /\ initResult = Undefined /\ initPromise = 0
    /\ initGeneration = 0
    /\ creq = <<>> /\ att = <<>> /\ cl = NoCloses /\ icalls = NoInitCalls
    /\ retryPolicy = defaultRetryPolicy /\ requestId = 1
    /\ sessionId = Undefined /\ protocolVersion = Undefined
    /\ tcalls = <<>> /\ tcl = <<>>
    /\ sse = NoSse
    /\ headers = NoHeaders
    /\ authProvider = NoProvider /\ authHeaders = NoHeaders

EnqueueSteps ==
    /\ \/ \E i \in 1..Len(enq) : enqueue_afterGetAll(i)
       \/ \E i \in 1..Len(enq) : enqueue_afterRemove(i)
       \/ \E i \in 1..Len(enq) : enqueue_return(i)
    /\ UNCHANGED cvars

RequestSteps ==
    \/ \E r \in 1..Len(creq) : request_afterIsOnline(r)
    \/ \E r \in 1..Len(creq) : request_transportResolved(r)
    \/ \E r \in 1..Len(creq) : request_transportRejected(r)
    \/ \E r \in 1..Len(creq) : request_afterEnqueue(r)

ClientNext ==
    \/ initialize_call
    \/ \E a \in 1..Len(att) : attempt_thenCatch(a)
    \/ \E a \in 1..Len(att) : attempt_finally(a)
    \/ \E a \in 1..Len(att) : attempt_settled(a)
    \/ close_call
    \/ close_afterTransportClose
    \/ close_transportCloseRejected
    \/ RequestSteps
    \/ EnqueueSteps

\* McpClient.initialize and McpClient.close over any Transport
SpecClient == ClientInit /\ [][ClientNext /\ UNCHANGED <<tvars, svars, hvars>>]_vars

RequestNext ==
    \/ request_call
    \/ RequestSteps
    \/ EnqueueSteps

\* a new McpClient that is only asked for plain requests: with or without
\* an offline queue, the queue unbounded or bounded to one item
RequestInit ==
    /\ hasQueue \in BOOLEAN
    /\ hasOnlineCheck \in (IF hasQueue THEN BOOLEAN ELSE {FALSE})
    /\ hasClose = TRUE
    /\ maxQueueSize \in (IF hasQueue THEN {0, 1} ELSE {0})
    /\ items = <<>> /\ nextItemId = 1 /\ enq = <<>> /\ fl = NoFlush
    /\ addedLog = <<>> /\ overlapped = FALSE
    /\ initialized = FALSE /\ initResult = Undefined /\ initPromise = 0
    /\ initGeneration = 0
    /\ creq = <<>> /\ att = <<>> /\ cl = NoCloses /\ icalls = NoInitCalls
    /\ retryPolicy = defaultRetryPolicy /\ requestId = 1
    /\ sessionId = Undefined /\ protocolVersion = Undefined
    /\ tcalls = <<>> /\ tcl = <<>>
    /\ sse = NoSse
    /\ headers = NoHeaders
    /\ authProvider = NoProvider /\ authHeaders = NoHeaders

\* McpClient.request (listTools, callTool) over any Transport
SpecRequest == RequestInit /\ [][RequestNext /\ UNCHANGED <<tvars, svars, hvars>>]_vars

TransportRequestSteps ==
    \/ \E c \in 1..Len(tcalls) : transport_request_afterBuildHeaders(c)
    \/ \E c \in 1..Len(tcalls) : transport_request_fetchFailed(c)
    \/ \E c \in 1..Len(tcalls) : transport_request_responseNotOk(c)
    \/ \E c \in 1..Len(tcalls) : transport_request_afterErrorText(c)
    \/ \E c \in 1..Len(tcalls) : transport_request_initializeResponse(c)
    \/ \E c \in 1..Len(tcalls) : transport_request_initializeResult(c)
    \/ \E c \in 1..Len(tcalls) : transport_request_bodyFailed(c)
    \/ \E c \in 1..Len(tcalls) : transport_request_result(c)
    \/ \E c \in 1..Len(tcalls) : transport_request_afterDelay(c)

\* a new HttpTransport (transport.ts:194-205) with a retry policy of at most
\* one retry and the default delays, and an idle queue and client
SessionInit ==
    /\ retryPolicy \in [retries : {0, 1}, baseDelayMs : {defaultBaseDelayMs},
                        maxDelayMs : {defaultMaxDelayMs}, retryOn : {FALSE}]
    /\ requestId = 1
    /\ sessionId = Undefined /\ protocolVersion = Undefined
    /\ tcalls = <<>> /\ tcl = <<>>
    /\ maxQueueSize = 0
    /\ items = <<>> /\ nextItemId = 1 /\ enq = <<>> /\ fl = NoFlush
    /\ addedLog = <<>> /\ overlapped = FALSE
    /\ hasQueue = FALSE /\ hasOnlineCheck = FALSE /\ hasClose = TRUE
    /\ initialized = FALSE /\ initResult = Undefined /\ initPromise = 0
    /\ initGeneration = 0
    /\ creq = <<>> /\ att = <<>> /\ cl = NoCloses /\ icalls = NoInitCalls
    /\ sse = NoSse
    /\ headers = NoHeaders
    /\ authProvider = NoProvider /\ authHeaders = NoHeaders

SessionNext ==
    \/ /\ Len(tcalls) < MaxOverlappingCalls
       /\ \E m \in {"initialize", "tools/list"} : transport_request_call(m)
    \/ TransportRequestSteps
    \/ transport_close_call
    \/ \E k \in 1..Len(tcl) : transport_close_afterFetch(k)

\* HttpTransport: concurrent request and close calls on one session
SpecSession == SessionInit /\ [][SessionNext /\ UNCHANGED <<qvars, cvars, svars, hvars>>]_vars

\* a new HttpTransport with any retry policy within the bounds
RetryInit ==
    /\ retryPolicy \in [retries : 0..MaxRetries, baseDelayMs : 0..MaxBaseDelayMs,
                        maxDelayMs : 0..MaxMaxDelayMs, retryOn : BOOLEAN]
    /\ requestId = 1
    /\ sessionId = Undefined /\ protocolVersion = Undefined
    /\ tcalls = <<>> /\ tcl = <<>>
    /\ maxQueueSize = 0
    /\ items = <<>> /\ nextItemId = 1 /\ enq = <<>> /\ fl = NoFlush
    /\ addedLog = <<>> /\ overlapped = FALSE
    /\ hasQueue = FALSE /\ hasOnlineCheck = FALSE /\ hasClose = TRUE
    /\ initialized = FALSE /\ initResult = Undefined /\ initPromise = 0
    /\ initGeneration = 0
    /\ creq = <<>> /\ att = <<>> /\ cl = NoCloses /\ icalls = NoInitCalls
    /\ sse = NoSse
    /\ headers = NoHeaders
    /\ authProvider = NoProvider /\ authHeaders = NoHeaders

RetryNext ==
    \/ /\ tcalls = <<>>
       /\ \E m \in {"initialize", "tools/list"} : transport_request_call(m)
    \/ TransportRequestSteps
    \/ \E c \in 1..Len(tcalls) : transport_request_errorEnvelope(c)

\* HttpTransport.request under every retry policy within the bounds
SpecRetry == RetryInit /\ [][RetryNext /\ UNCHANGED <<qvars, cvars, svars, hvars>>]_vars

\* the last error of a call
LastError(call) == call.errs[Len(call.errs)]

\* a server that fails with status 500 only
ServerFailures == {HttpError(500)}

\* a new HttpTransport with at most one retry and the default delays
WireInit ==
    /\ retryPolicy \in [retries : {0, 1}, baseDelayMs : {defaultBaseDelayMs},
                        maxDelayMs : {defaultMaxDelayMs}, retryOn : {FALSE}]
    /\ requestId = 1
    /\ sessionId = Undefined /\ protocolVersion = Undefined
    /\ tcalls = <<>> /\ tcl = <<>>
    /\ maxQueueSize = 0
    /\ items = <<>> /\ nextItemId = 1 /\ enq = <<>> /\ fl = NoFlush
    /\ addedLog = <<>> /\ overlapped = FALSE
    /\ hasQueue = FALSE /\ hasOnlineCheck = FALSE /\ hasClose = TRUE
    /\ initialized = FALSE /\ initResult = Undefined /\ initPromise = 0
    /\ initGeneration = 0
    /\ creq = <<>> /\ att = <<>> /\ cl = NoCloses /\ icalls = NoInitCalls
    /\ sse = NoSse
    /\ headers = NoHeaders
    /\ authProvider = NoProvider /\ authHeaders = NoHeaders

\* overlapping request, stream and upload calls against a server
\* that answers 2xx or 500, and whose 2xx bodies decode
WireNext ==
    \/ /\ Len(tcalls) < MaxOverlappingCalls
       /\ \E m \in {"initialize", "tools/list"} : transport_request_call(m)
    \/ /\ Len(tcalls) < MaxOverlappingCalls
       /\ transport_stream_call("tools/call")
    \/ /\ Len(tcalls) < MaxOverlappingCalls
       /\ \E file \in {"data", "neither"} : transport_upload_call(file)
    \/ \E c \in 1..Len(tcalls) : transport_request_afterBuildHeaders(c)
    \/ \E c \in 1..Len(tcalls) :
         transport_request_responseNotOk(c)
            /\ HttpError(tcalls'[c].resp) \in ServerFailures
    \/ \E c \in 1..Len(tcalls) : transport_request_afterErrorText(c)
    \/ \E c \in 1..Len(tcalls) : transport_request_initializeResponse(c)
    \/ \E c \in 1..Len(tcalls) : transport_request_initializeResult(c)
    \/ \E c \in 1..Len(tcalls) : transport_request_result(c)
    \/ \E c \in 1..Len(tcalls) : transport_request_afterDelay(c)
    \/ \E c \in 1..Len(tcalls) : transport_stream_afterBuildHeaders(c)
    \/ \E c \in 1..Len(tcalls) : transport_upload_afterBuildHeaders(c)
    \/ \E c \in 1..Len(tcalls) :
         transport_transfer_afterFetch(c)
            /\ tcalls'[c].outcome \in {Result} \cup ServerFailures

\* HttpTransport: what overlapping calls put on the wire
SpecWire == WireInit /\ [][WireNext /\ UNCHANGED <<qvars, cvars, svars, hvars>>]_vars

\* no call of the transport is in progress
TransportIdle ==
    /\ \A c \in 1..Len(tcalls) : tcalls[c].pc = "done"
    /\ \A k \in 1..Len(tcl) : tcl[k].pc = "done"

\* a new HttpTransport with the default retry policy, without an auth
\* provider, with a TokenAuthProvider, or with a StaticHeadersAuthProvider
\* whose headers name mcp-session-id
FlowInit ==
    /\ retryPolicy = defaultRetryPolicy
    /\ requestId = 1
    /\ sessionId = Undefined /\ protocolVersion = Undefined
    /\ tcalls = <<>> /\ tcl = <<>>
    /\ maxQueueSize = 0
    /\ items = <<>> /\ nextItemId = 1 /\ enq = <<>> /\ fl = NoFlush
    /\ addedLog = <<>> /\ overlapped = FALSE
    /\ hasQueue = FALSE /\ hasOnlineCheck = FALSE /\ hasClose = TRUE
    /\ initialized = FALSE /\ initResult = Undefined /\ initPromise = 0
    /\ initGeneration = 0
    /\ creq = <<>> /\ att = <<>> /\ cl = NoCloses /\ icalls = NoInitCalls
    /\ sse = NoSse
    /\ headers = NoHeaders
    /\ authProvider \in {Provider(kind) : kind \in {"none", "token", "static"}}
    /\ authHeaders \in IF authProvider.kind = "static"
                         THEN {"mcp-session-id" :> "v1"}
                         ELSE ProvidedHeaders(authProvider)

\* one caller that awaits every call before it makes the next, against a
\* server that answers every POST with 2xx and a body that decodes; the auth
\* provider, when there is one, answers
FlowNext ==
    \/ /\ TransportIdle
       /\ \E m \in {"initialize", "tools/list", "tools/call"} :
            transport_request_call(m)
    \/ \E c \in 1..Len(tcalls) : transport_request_afterBuildHeaders(c)
    \/ \E c \in 1..Len(tcalls) : transport_request_initializeResponse(c)
    \/ \E c \in 1..Len(tcalls) : transport_request_initializeResult(c)
    \/ \E c \in 1..Len(tcalls) : transport_request_result(c)
    \/ TransportIdle /\ transport_close_call
    \/ \E k \in 1..Len(tcl) : transport_close_afterGetHeaders(k)
    \/ \E k \in 1..Len(tcl) : transport_close_afterFetch(k)

\* HttpTransport: a session used by one caller, one call after another
SpecFlow == FlowInit /\ [][FlowNext /\ UNCHANGED <<qvars, cvars, svars, hvars>>]_vars

\* the SSE frame parser applied to a response body, with or without a
\* readable body stream, the reader cutting the text into chunks as it likes
SseInit ==
    /\ sse \in [op : {"parseSseStream", "parseSseResponse"}, body : BOOLEAN,
                text : SseTexts, pos : {0}, buffer : {<<>>},
                lines : {<<>>}, held : {FALSE},
                yielded : {<<>>}, status : {"running"}]
    /\ headers = NoHeaders
    /\ authProvider = NoProvider /\ authHeaders = NoHeaders
    /\ maxQueueSize = 0
    /\ items = <<>> /\ nextItemId = 1 /\ enq = <<>> /\ fl = NoFlush
    /\ addedLog = <<>> /\ overlapped = FALSE
    /\ hasQueue = FALSE /\ hasOnlineCheck = FALSE /\ hasClose = TRUE
    /\ initialized = FALSE /\ initResult = Undefined /\ initPromise = 0
    /\ initGeneration = 0
    /\ creq = <<>> /\ att = <<>> /\ cl = NoCloses /\ icalls = NoInitCalls
    /\ retryPolicy = defaultRetryPolicy /\ requestId = 1
    /\ sessionId = Undefined /\ protocolVersion = Undefined
    /\ tcalls = <<>> /\ tcl = <<>>

SseNext ==
    \/ parseSseStream_unsupported
    \/ \E n \in 1..Len(sse.text) : parseSseStream_read(n)
    \/ parseSseStream_next
    \/ parseSseStream_return
    \/ parseSseStream_done
    \/ parseSseStream_aborted
    \/ parseSseResponse_text
    \/ \E n \in 1..Len(sse.text) : parseSseResponse_read(n)
    \/ parseSseResponse_done

SpecSse ==
    SseInit /\ [][SseNext /\ UNCHANGED <<qvars, cvars, tvars, hvars>>]_vars

\* a new HttpTransport under any retry policy within the bounds
TransferInit ==
    /\ retryPolicy \in [retries : 0..MaxRetries, baseDelayMs : {defaultBaseDelayMs},
                        maxDelayMs : {defaultMaxDelayMs}, retryOn : BOOLEAN]
    /\ requestId = 1
    /\ sessionId = Undefined /\ protocolVersion = Undefined
    /\ tcalls = <<>> /\ tcl = <<>>
    /\ maxQueueSize = 0
    /\ items = <<>> /\ nextItemId = 1 /\ enq = <<>> /\ fl = NoFlush
    /\ addedLog = <<>> /\ overlapped = FALSE
    /\ hasQueue = FALSE /\ hasOnlineCheck = FALSE /\ hasClose = TRUE
    /\ initialized = FALSE /\ initResult = Undefined /\ initPromise = 0
    /\ initGeneration = 0
    /\ creq = <<>> /\ att = <<>> /\ cl = NoCloses /\ icalls = NoInitCalls
    /\ sse = NoSse
    /\ headers = NoHeaders
    /\ authProvider = NoProvider /\ authHeaders = NoHeaders

\* one caller streaming and uploading, one call after the other, against a
\* server and a network that may fail in every way
TransferNext ==
    \/ /\ TransportIdle /\ Len(tcalls) < MaxOverlappingCalls
       /\ transport_stream_call("tools/call")
    \/ /\ TransportIdle /\ Len(tcalls) < MaxOverlappingCalls
       /\ \E file \in FileKinds : transport_upload_call(file)
    \/ \E c \in 1..Len(tcalls) : transport_stream_afterBuildHeaders(c)
    \/ \E c \in 1..Len(tcalls) : transport_upload_afterBuildHeaders(c)
    \/ \E c \in 1..Len(tcalls) : transport_transfer_afterFetch(c)

\* HttpTransport.stream and upload under every retry policy
SpecTransfer ==
    TransferInit /\ [][TransferNext /\ UNCHANGED <<qvars, cvars, svars, hvars>>]_vars

\* a new HttpTransport with base headers and an auth provider
HeadersInit ==
    /\ authProvider \in {Provider(kind) : kind \in ProviderKinds}
    /\ authHeaders \in ProvidedHeaders(authProvider)
    /\ headers \in BaseHeaders(authProvider)
    /\ retryPolicy = [defaultRetryPolicy EXCEPT !.retries = 1, !.retryOn = FALSE]
    /\ requestId = 1
    /\ sessionId = Undefined /\ protocolVersion = Undefined
    /\ tcalls = <<>> /\ tcl = <<>>
    /\ maxQueueSize = 0
    /\ items = <<>> /\ nextItemId = 1 /\ enq = <<>> /\ fl = NoFlush
    /\ addedLog = <<>> /\ overlapped = FALSE
    /\ hasQueue = FALSE /\ hasOnlineCheck = FALSE /\ hasClose = TRUE
    /\ initialized = FALSE /\ initResult = Undefined /\ initPromise = 0
    /\ initGeneration = 0
    /\ creq = <<>> /\ att = <<>> /\ cl = NoCloses /\ icalls = NoInitCalls
    /\ sse = NoSse

\* one caller that awaits every call before it makes the next: request,
\* stream, upload and close, against a server that answers every call with
\* 2xx and a body that decodes, and initialize with a session id and the
\* negotiated protocol version
HeadersSteps ==
    \/ /\ TransportIdle /\ Len(tcalls) < MaxOverlappingCalls
       /\ \E m \in {"initialize", "tools/list"} : transport_request_call(m)
    \/ /\ TransportIdle /\ Len(tcalls) < MaxOverlappingCalls
       /\ transport_stream_call("tools/call")
    \/ /\ TransportIdle /\ Len(tcalls) < MaxOverlappingCalls
       /\ transport_upload_call("data")
    \/ \E c \in 1..Len(tcalls) : transport_request_afterBuildHeaders(c)
    \/ \E c \in 1..Len(tcalls) :
         transport_request_initializeResponse(c) /\ sessionId' \in SessionIds
    \/ \E c \in 1..Len(tcalls) :
         transport_request_initializeResult(c)
            /\ protocolVersion' = NegotiatedVersion
    \/ \E c \in 1..Len(tcalls) : transport_request_result(c)
    \/ \E c \in 1..Len(tcalls) : transport_request_getHeadersRejected(c)
    \/ \E c \in 1..Len(tcalls) : transport_request_afterDelay(c)
    \/ \E c \in 1..Len(tcalls) : transport_stream_afterBuildHeaders(c)
    \/ \E c \in 1..Len(tcalls) : transport_upload_afterBuildHeaders(c)
    \/ \E c \in 1..Len(tcalls) : transport_transfer_getHeadersRejected(c)
    \/ \E c \in 1..Len(tcalls) :
         transport_transfer_afterFetch(c) /\ tcalls'[c].outcome = Result
    \/ TransportIdle /\ transport_close_call
    \/ \E k \in 1..Len(tcl) : transport_close_afterGetHeaders(k)
    \/ \E k \in 1..Len(tcl) : transport_close_getHeadersRejected(k)
    \/ \E k \in 1..Len(tcl) :
         transport_close_afterFetch(k) /\ tcl'[k].answer = HttpError(200)

\* the calls above, and the application giving the provider a new token at
\* any time, between the steps of a call included
HeadersNext ==
    \/ HeadersSteps /\ UNCHANGED hvars
    \/ \E token \in Tokens : authProvider_setToken(token) /\ UNCHANGED tvars

\* HttpTransport: the headers of every call it sends and logs
SpecHeaders ==
    HeadersInit /\ [][HeadersNext /\ UNCHANGED <<qvars, cvars, svars>>]_vars

\* a new HttpTransport under any number of retries within the bounds
TimeoutInit ==
    /\ retryPolicy \in [retries : 0..MaxRetries, baseDelayMs : {defaultBaseDelayMs},
                        maxDelayMs : {defaultMaxDelayMs}, retryOn : {TRUE}]
    /\ requestId = 1
    /\ sessionId = Undefined /\ protocolVersion = Undefined
    /\ tcalls = <<>> /\ tcl = <<>>
    /\ maxQueueSize = 0
    /\ items = <<>> /\ nextItemId = 1 /\ enq = <<>> /\ fl = NoFlush
    /\ addedLog = <<>> /\ overlapped = FALSE
    /\ hasQueue = FALSE /\ hasOnlineCheck = FALSE /\ hasClose = TRUE
    /\ initialized = FALSE /\ initResult = Undefined /\ initPromise = 0
    /\ initGeneration = 0
    /\ creq = <<>> /\ att = <<>> /\ cl = NoCloses /\ icalls = NoInitCalls
    /\ sse = NoSse
    /\ headers = NoHeaders
    /\ authProvider = NoProvider /\ authHeaders = NoHeaders

\* one request call with any options, its attempts failing or succeeding,
\* its timers firing at any time after they were armed
TimeoutNext ==
    \/ /\ tcalls = <<>>
       /\ \E m \in {"initialize", "tools/list"}, options \in RequestOptions :
            transport_request_callWith(m, options)
    \/ TransportRequestSteps
    \/ \E c \in 1..Len(tcalls) :
         \E j \in tcalls[c].timers : transport_request_timerFired(c, j)

\* HttpTransport.request with a timeout or a signal
SpecTimeout ==
    TimeoutInit /\ [][TimeoutNext /\ UNCHANGED <<qvars, cvars, svars, hvars>>]_vars

\* a new McpClient with an offline queue (unbounded, over an empty
\* storage), with or without a connectivity check
FaultsInit ==
    /\ hasQueue = TRUE
    /\ hasOnlineCheck \in BOOLEAN
    /\ hasClose = TRUE
    /\ maxQueueSize = 0
    /\ items = <<>> /\ nextItemId = 1 /\ enq = <<>> /\ fl = NoFlush
    /\ addedLog = <<>> /\ overlapped = FALSE
    /\ initialized = FALSE /\ initResult = Undefined /\ initPromise = 0
    /\ initGeneration = 0
    /\ creq = <<>> /\ att = <<>> /\ cl = NoCloses /\ icalls = NoInitCalls
    /\ retryPolicy = defaultRetryPolicy /\ requestId = 1
    /\ sessionId = Undefined /\ protocolVersion = Undefined
    /\ tcalls = <<>> /\ tcl = <<>>
    /\ sse = NoSse
    /\ headers = NoHeaders
    /\ authProvider = NoProvider /\ authHeaders = NoHeaders

\* plain requests over a storage whose getAll may raise and an onEnqueue
\* observer that may raise
FaultsNext ==
    \/ request_call
    \/ RequestSteps
    \/ \E r \in 1..Len(creq) : request_enqueueRejected(r)
    \/ EnqueueSteps
    \/ \E i \in 1..Len(enq) : enqueue_getAllThrows(i) /\ UNCHANGED cvars
    \/ \E i \in 1..Len(enq) : enqueue_onEnqueueThrows(i) /\ UNCHANGED cvars

\* McpClient.request over a queue whose storage and observer may fail
SpecFaults == FaultsInit /\ [][FaultsNext /\ UNCHANGED <<tvars, svars, hvars>>]_vars

\* a new HttpTransport under any number of retries within the bounds, with
\* or without a retryOn predicate
AbortInit ==
    /\ retryPolicy \in [retries : 0..MaxRetries, baseDelayMs : {defaultBaseDelayMs},
                        maxDelayMs : {defaultMaxDelayMs}, retryOn : BOOLEAN]
    /\ requestId = 1
    /\ sessionId = Undefined /\ protocolVersion = Undefined
    /\ tcalls = <<>> /\ tcl = <<>>
    /\ maxQueueSize = 0
    /\ items = <<>> /\ nextItemId = 1 /\ enq = <<>> /\ fl = NoFlush
    /\ addedLog = <<>> /\ overlapped = FALSE
    /\ hasQueue = FALSE /\ hasOnlineCheck = FALSE /\ hasClose = TRUE
    /\ initialized = FALSE /\ initResult = Undefined /\ initPromise = 0
    /\ initGeneration = 0
    /\ creq = <<>> /\ att = <<>> /\ cl = NoCloses /\ icalls = NoInitCalls
    /\ sse = NoSse
    /\ headers = NoHeaders
    /\ authProvider = NoProvider /\ authHeaders = NoHeaders

\* one request call that was given the caller's signal; the caller may
\* abort while an attempt is in flight, and every fetch made with the
\* aborted signal rejects
AbortNext ==
    \/ /\ tcalls = <<>>
       /\ \E m \in {"initialize", "tools/list"}, timeoutMs \in {0, 1} :
            transport_request_callWith(m, [timeoutMs |-> timeoutMs, signal |-> TRUE])
    \/ \E c \in 1..Len(tcalls) : transport_request_afterBuildHeaders(c)
    \/ \E c \in 1..Len(tcalls) :
         ~CallerAborted(tcalls[c]) /\ transport_request_fetchFailed(c)
    \/ \E c \in 1..Len(tcalls) :
         ~CallerAborted(tcalls[c]) /\ transport_request_responseNotOk(c)
    \/ \E c \in 1..Len(tcalls) : transport_request_afterErrorText(c)
    \/ \E c \in 1..Len(tcalls) :
         ~CallerAborted(tcalls[c]) /\ transport_request_initializeResponse(c)
    \/ \E c \in 1..Len(tcalls) :
         ~CallerAborted(tcalls[c]) /\ transport_request_initializeResult(c)
    \/ \E c \in 1..Len(tcalls) :
         ~CallerAborted(tcalls[c]) /\ transport_request_bodyFailed(c)
    \/ \E c \in 1..Len(tcalls) :
         ~CallerAborted(tcalls[c]) /\ transport_request_result(c)
    \/ \E c \in 1..Len(tcalls) : transport_request_afterDelay(c)
    \/ \E c \in 1..Len(tcalls) : transport_request_callerAborted(c)

\* HttpTransport.request cancelled by its caller
SpecAbort ==
    AbortInit /\ [][AbortNext /\ UNCHANGED <<qvars, cvars, svars, hvars>>]_vars

\* a new OfflineQueue over an empty InMemoryQueueStorage
FlushLiveInit ==
    /\ maxQueueSize \in 0..MaxQueueSizeCfg
    /\ items = <<>> /\ nextItemId = 1 /\ enq = <<>> /\ fl = NoFlush
    /\ addedLog = <<>> /\ overlapped = FALSE
    /\ hasQueue = TRUE /\ hasOnlineCheck = FALSE /\ hasClose = FALSE
    /\ initialized = FALSE /\ initResult = Undefined /\ initPromise = 0
    /\ initGeneration = 0
    /\ creq = <<>> /\ att = <<>> /\ cl = NoCloses /\ icalls = NoInitCalls
    /\ retryPolicy = defaultRetryPolicy /\ requestId = 1
    /\ sessionId = Undefined /\ protocolVersion = Undefined
    /\ tcalls = <<>> /\ tcl = <<>>
    /\ sse = NoSse
    /\ headers = NoHeaders
    /\ authProvider = NoProvider /\ authHeaders = NoHeaders

\* the steps of an enqueue call after its awaits: the storage answers
EnqueueProgress ==
    /\ \/ \E i \in 1..Len(enq) : enqueue_afterGetAll(i)
       \/ \E i \in 1..Len(enq) : enqueue_afterRemove(i)
       \/ \E i \in 1..Len(enq) : enqueue_return(i)
    /\ UNCHANGED <<cvars, tvars, svars, hvars>>

\* flushQueue is called whenever no pass is running and every enqueue call
\* has returned, and the storage answers the pass
FlushProgress ==
    /\ \/ ~EnqActive /\ ~FlushActive /\ flushQueue_call
       \/ flush_afterGetAll(0)
       \/ flush_afterRemove(0)
    /\ UNCHANGED <<cvars, tvars, svars, hvars>>

\* the transport accepts the replay of a pass
ReplayAccepted == flush_senderOk(0) /\ UNCHANGED <<cvars, tvars, svars, hvars>>

\* the transport refuses the replay of a pass
ReplayRefused == flush_senderFail(0) /\ UNCHANGED <<cvars, tvars, svars, hvars>>

\* enqueue calls, one after the other and all made before the first
\* flushQueue call, then flushQueue repeated
FlushLiveNext ==
    \/ /\ NoFlushYet /\ ~EnqActive
       /\ enqueue_call /\ UNCHANGED <<cvars, tvars, svars, hvars>>
    \/ EnqueueProgress
    \/ FlushProgress
    \/ ReplayAccepted
    \/ ReplayRefused

\* the queue filled and then flushed again and again: every await of the
\* storage resolves, flushQueue is repeated, and a replay that is tried
\* again and again is eventually accepted
SpecFlushLive ==
    /\ FlushLiveInit
    /\ [][FlushLiveNext]_vars
    /\ WF_vars(EnqueueProgress)
    /\ WF_vars(FlushProgress)
    /\ SF_vars(ReplayAccepted)

====
